---- MODULE Spec2Model ----
(***************************************************************************)
(* A model of the camelion color library: construction of colors           *)
(* (Color::new and its accessors), conversion between the fourteen color   *)
(* spaces (Color::to_space) and gamut mapping                              *)
(* (Color::map_into_gamut_limits).                                         *)
(*                                                                         *)
(* A Component (f32) is modelled as a fixed-point number: the integer v    *)
(* stands for the value v / Scale.  Component::NAN is the value NaN, and   *)
(* the None of an Option<Component> is the value None.                     *)
(***************************************************************************)
EXTENDS Integers, Sequences, FiniteSets, TLC

K == 10 * 10 * 10
Scale == K * K

\* Component::NAN, and the None of Option<Component>.
NaN == -2000000000
None == NaN - 1

is_nan(v) == v = NaN

\* The value of a let binding: the only element of a set.  The element is
\* computed when the set is built, as the code computes the value of a let
\* before the statements that use it.
Value(S) == CHOOSE v \in S : TRUE

\* Comparisons of Components: every comparison with a NaN is false, except
\* that a NaN differs from everything.
lt(a, b) == ~is_nan(a) /\ ~is_nan(b) /\ a < b
le(a, b) == ~is_nan(a) /\ ~is_nan(b) /\ a <= b
gt(a, b) == ~is_nan(a) /\ ~is_nan(b) /\ a > b
ge(a, b) == ~is_nan(a) /\ ~is_nan(b) /\ a >= b
eq(a, b) == ~is_nan(a) /\ ~is_nan(b) /\ a = b
ne(a, b) == ~eq(a, b)

\* Absolute value and sign of a value that is not a NaN.
Abs(a) == IF a < 0 THEN -a ELSE a
Sign(a) == IF a < 0 THEN -1 ELSE 1

\* f32::abs, and f32::signum: 1.0 for +0.0 and positive values, -1.0 for
\* negative values, NaN for a NaN.
abs(a) == IF is_nan(a) THEN NaN ELSE Abs(a)
signum(a) == IF is_nan(a) THEN NaN ELSE IF a < 0 THEN -Scale ELSE Scale

\* f32::max and f32::min: a NaN operand is ignored.
fmax(a, b) == IF is_nan(a) THEN b ELSE IF is_nan(b) THEN a ELSE IF a > b THEN a ELSE b
fmin(a, b) == IF is_nan(a) THEN b ELSE IF is_nan(b) THEN a ELSE IF a < b THEN a ELSE b

\* a + b, a - b and -a on Components.
Add(a, b) == IF is_nan(a) \/ is_nan(b) THEN NaN ELSE a + b
Sub(a, b) == IF is_nan(a) \/ is_nan(b) THEN NaN ELSE a - b
Neg(a) == IF is_nan(a) THEN NaN ELSE -a

\* Product of two non-negative fixed-point values, rounded to nearest; the
\* factors are split at K so that every intermediate fits in 32 bits.
MulU(a, b) ==
    (a \div K) * (b \div K)
        + ((a \div K) * (b % K) + (a % K) * (b \div K)
             + ((a % K) * (b % K) + Scale \div 2) \div K) \div K

\* a * b on Components.
Mul(a, b) ==
    IF is_nan(a) \/ is_nan(b) THEN NaN
    ELSE Sign(a) * Sign(b) * MulU(Abs(a), Abs(b))

\* a * n / d for a Component a and integers n, d > 0 (a rational constant).
MulDivU(a, n, d) == (a \div d) * n + ((a % d) * n + d \div 2) \div d
MulDiv(a, n, d) == IF is_nan(a) THEN NaN ELSE Sign(a) * MulDivU(Abs(a), n, d)

\* Quotient of two non-negative fixed-point values by long division; s is
\* <<digits left, quotient, remainder>>.
RECURSIVE DivDigits(_, _)
DivDigits(s, b) ==
    IF s[1] = 0 THEN s[2] + (IF 2 * s[3] >= b THEN 1 ELSE 0)
    ELSE DivDigits(<<s[1] - 1, s[2] * 10 + (s[3] * 10) \div b, (s[3] * 10) % b>>, b)

DivU(a, b) == DivDigits(<<6, a \div b, a % b>>, b)

\* a / b on Components, b # 0.
Div(a, b) ==
    IF is_nan(a) \/ is_nan(b) THEN NaN
    ELSE Sign(a) * Sign(b) * DivU(Abs(a), Abs(b))

\* The largest binary exponent of a value below 1.
LogBits == 2 * 10

\* The binary exponent n of x > 0, and the mantissa x / 2^n in [1, 2).
Log2Exponent(x) ==
    IF x >= Scale THEN CHOOSE n \in 0 .. 11 : (x \div 2^n) \div Scale = 1
    ELSE -(CHOOSE n \in 1 .. LogBits : (x * 2^n) \div Scale >= 1)

Log2Norm(x, n) == IF n >= 0 THEN x \div 2^n ELSE x * 2^(-n)

\* The logarithm of a mantissa m in [1, 2) is found by bringing m to 1 + r,
\* r < 1/250, with two factors read from tables: the reciprocals of 1 + j/16
\* and of 1 + j/250, j = 0 .. 15, whose logarithms are tabulated as well.
\* The logarithm of 1 + r is (r - r^2/2) / ln 2.
Log2Recip16 ==
    << 1000000, 941176, 888889, 842105, 800000, 761905, 727273, 695652,
       666667, 640000, 615385, 592593, 571429, 551724, 533333, 516129 >>

Log2Of16 ==
    << 0, 87464, 169925, 247928, 321928, 392317, 459431, 523562,
       584962, 643856, 700439, 754887, 807354, 857981, 906891, 954196 >>

Log2Recip250 ==
    << 1000000, 996016, 992063, 988142, 984252, 980392, 976562, 972763,
       968992, 965251, 961538, 957854, 954198, 950570, 946970, 943396 >>

Log2Of250 ==
    << 0, 5759, 11496, 17210, 22900, 28569, 34216, 39840,
       45443, 51024, 56584, 62122, 67639, 73135, 78609, 84065 >>

\* 1 / ln 2 and ln 2.
InvLn2 == 1442695 + 0
Ln2 == 693147 + 0

\* log2(m) for a mantissa m in [1, 1 + 1/16].
Log2Near1(m) ==
    Value({Value({Log2Of250[j + 1] + MulU(r - (r * r) \div (2 * Scale), InvLn2) :
                      r \in {MulU(m, Log2Recip250[j + 1]) - Scale}}) :
               j \in {IF m < Scale THEN 0 ELSE (m - Scale) \div (4 * K)}})

\* log2(m) for a mantissa m in [1, 2).
Log2Mantissa(m) ==
    Value({Log2Of16[j + 1] + Log2Near1(MulU(m, Log2Recip16[j + 1])) :
               j \in {(m - Scale) \div (Scale \div 16)}})

\* log2(x) for x > 0.
Log2(x) ==
    Value({n * Scale + Log2Mantissa(Log2Norm(x, n)) : n \in {Log2Exponent(x)}})

\* 2^(j/16) and 2^(j/250) for j = 0 .. 15.
Exp2Of16 ==
    << 1000000, 1044274, 1090508, 1138789, 1189207, 1241858, 1296840, 1354256,
       1414214, 1476826, 1542211, 1610490, 1681793, 1756252, 1834008, 1915207 >>

Exp2Of250 ==
    << 1000000, 1002776, 1005561, 1008352, 1011152, 1013959, 1016775, 1019598,
       1022429, 1025267, 1028114, 1030968, 1033831, 1036701, 1039579, 1042466 >>

\* 2^f for a fraction f in [0, 1): f is j/16 + k/250 + r, and 2^r is
\* 1 + t + t^2/2 for t = r ln 2.
Exp2Frac(f) ==
    Value({MulU(MulU(Exp2Of16[f \div (Scale \div 16) + 1],
                     Exp2Of250[(f % (Scale \div 16)) \div (4 * K) + 1]),
                Scale + t + (t * t) \div (2 * Scale)) :
               t \in {MulU((f % (Scale \div 16)) % (4 * K), Ln2)}})

\* 2^y.
Exp2(y) ==
    Value({IF y \div Scale >= 0 THEN r * 2^(y \div Scale)
           ELSE IF y \div Scale < -30 THEN 0
           ELSE (r + 2^(-(y \div Scale)) \div 2) \div 2^(-(y \div Scale)) :
               r \in {Exp2Frac(y % Scale)}})

\* f32::powf(x, num / den) for x >= 0.
powf(x, num, den) ==
    IF is_nan(x) THEN NaN
    ELSE IF x = 0 THEN 0
    ELSE Value({Exp2(Sign(l) * MulDivU(Abs(l), num, den)) : l \in {Log2(x)}})

\* f32::sqrt for x >= 0, and f32::cbrt.
sqrt(x) == powf(x, 1, 2)
cbrt(x) == IF is_nan(x) THEN NaN ELSE Sign(x) * powf(Abs(x), 1, 3)

\* atan(2^-i) in degrees, i = 0 .. 20.
AtanTab ==
    << 45000000, 26565051, 14036243, 7125016, 3576334, 1789911, 895174,
       447614, 223811, 111906, 55953, 27976, 13988, 6994, 3497, 1749, 874,
       437, 219, 109, 55 >>

\* The reciprocal of the gain of the rotations below, at scale K * Scale
\* and at scale Scale.
InvGain9 == 607252935 + 0
InvGain == 607253 + 0

\* Rotate the vector <<x, y>>, x >= 0, onto the x axis; s is <<i, x, y, z>>
\* and the result <<i, length * gain, y, angle in degrees>>.
VectoringStep(s) ==
    IF s[3] > 0
    THEN <<s[1] + 1, s[2] + s[3] \div 2^s[1], s[3] - s[2] \div 2^s[1],
           s[4] + AtanTab[s[1] + 1]>>
    ELSE <<s[1] + 1, s[2] - s[3] \div 2^s[1], s[3] + s[2] \div 2^s[1],
           s[4] - AtanTab[s[1] + 1]>>

RECURSIVE Vectoring(_)
Vectoring(s) ==
    IF s[1] > 20 THEN s
    ELSE Vectoring(VectoringStep(VectoringStep(VectoringStep(s))))

\* Rotate the vector <<x, y>> by z degrees, |z| <= 90; s is <<i, x, y, z>>
\* and the result <<i, x', y', z'>>.
RotationStep(s) ==
    IF s[4] >= 0
    THEN <<s[1] + 1, s[2] - s[3] \div 2^s[1], s[3] + s[2] \div 2^s[1],
           s[4] - AtanTab[s[1] + 1]>>
    ELSE <<s[1] + 1, s[2] + s[3] \div 2^s[1], s[3] - s[2] \div 2^s[1],
           s[4] + AtanTab[s[1] + 1]>>

RECURSIVE Rotation(_)
Rotation(s) ==
    IF s[1] > 20 THEN s
    ELSE Rotation(RotationStep(RotationStep(RotationStep(s))))

\* The angle in degrees left between the vector s[2], s[3] and the x axis
\* when Vectoring stops: y / x radians, for an x that is not zero.
DegreesPerRadian == 572958
VectoringRest(s) ==
    IF s[2] < 100 THEN 0
    ELSE Sign(s[3]) * ((Abs(s[3]) * DegreesPerRadian + s[2] \div 200) \div (s[2] \div 100))

\* The angle a of [0, 360) as a value of (-180, 180].
signed_degrees(a) == IF a > 180 * Scale THEN a - 360 * Scale ELSE a

\* <<sqrt(a*a + b*b), atan2(b, a).to_degrees() in (-180, 180]>> of values
\* that are not NaN.
hypot_atan2(a, b) ==
    Value({Value({<<(MulU(v[2], InvGain) + sc \div 2) \div sc,
                    signed_degrees((v[4] + VectoringRest(v)
                                        + (IF a < 0 THEN 180 * Scale ELSE 0))
                                   % (360 * Scale))>> :
                      v \in {Vectoring(<<0, Abs(a) * sc,
                                         (IF a < 0 THEN -b ELSE b) * sc, 0>>)}}) :
               sc \in {IF Abs(a) < Scale /\ Abs(b) < Scale THEN K ELSE 1}})

\* <<cos, sin>> of an angle given in degrees that is not a NaN.
cos_sin(h) ==
    Value({Value({<<((r[2] + K \div 2) \div K) * q[2], ((r[3] + K \div 2) \div K) * q[2]>> :
                      r \in {Rotation(<<0, InvGain9, 0, q[1]>>)}}) :
               q \in {IF h % (360 * Scale) > 270 * Scale
                      THEN <<(h % (360 * Scale)) - 360 * Scale, 1>>
                      ELSE IF h % (360 * Scale) > 90 * Scale
                      THEN <<(h % (360 * Scale)) - 180 * Scale, -1>>
                      ELSE <<h % (360 * Scale), 1>>}})

(***************************************************************************)
(* Colors: crates/camelion/src/color.rs and src/src/color.rs.              *)
(***************************************************************************)

C0_IS_NONE == "C0_IS_NONE"
C1_IS_NONE == "C1_IS_NONE"
C2_IS_NONE == "C2_IS_NONE"
ALPHA_IS_NONE == "ALPHA_IS_NONE"
Flags == {C0_IS_NONE, C1_IS_NONE, C2_IS_NONE, ALPHA_IS_NONE}

Space ==
    {"Srgb", "Hsl", "Hwb", "Lab", "Lch", "Oklab", "Oklch", "SrgbLinear",
     "DisplayP3", "A98Rgb", "ProPhotoRgb", "Rec2020", "XyzD50", "XyzD65"}

\* f32::clamp: a NaN stays a NaN.
clamp(v, lo, hi) ==
    IF is_nan(v) THEN NaN ELSE IF v < lo THEN lo ELSE IF v > hi THEN hi ELSE v

\* A variant of ComponentDetails that takes a NaN for a missing value.
ComponentDetails_nan_is_none(x) ==
    [value |-> IF x = None \/ x = NaN THEN 0 ELSE x, is_none |-> x = None \/ x = NaN]

\* From<Component> and From<Option<Component>> for ComponentDetails.
ComponentDetails(x) ==
    [value |-> IF x = None THEN 0 ELSE x, is_none |-> x = None]

\* ComponentDetails::value_and_flag: <<the value, the flags it sets>>.
value_and_flag(cd, flag) == <<cd.value, IF cd.is_none THEN {flag} ELSE {}>>

\* Color::new of crates/camelion: alpha is clamped to [0, 1].
Color_new(space, x0, x1, x2, a) ==
    LET d0 == value_and_flag(ComponentDetails(x0), C0_IS_NONE)
        d1 == value_and_flag(ComponentDetails(x1), C1_IS_NONE)
        d2 == value_and_flag(ComponentDetails(x2), C2_IS_NONE)
        da == value_and_flag(ComponentDetails(a), ALPHA_IS_NONE)
    IN  [components |-> <<d0[1], d1[1], d2[1]>>,
         alpha |-> clamp(da[1], 0, Scale),
         flags |-> d0[2] \cup d1[2] \cup d2[2] \cup da[2],
         space |-> space]

\* Color::new of src/src/color.rs: alpha is stored as given.
Color_new_src(space, x0, x1, x2, a) ==
    LET d0 == value_and_flag(ComponentDetails(x0), C0_IS_NONE)
        d1 == value_and_flag(ComponentDetails(x1), C1_IS_NONE)
        d2 == value_and_flag(ComponentDetails(x2), C2_IS_NONE)
        da == value_and_flag(ComponentDetails(a), ALPHA_IS_NONE)
    IN  [components |-> <<d0[1], d1[1], d2[1]>>,
         alpha |-> da[1],
         flags |-> d0[2] \cup d1[2] \cup d2[2] \cup da[2],
         space |-> space]

\* A variant of Color::alpha that returns the stored value whatever the flag.
alpha_stored(c) == c.alpha

\* The accessors Color::c0, c1, c2 and alpha.
c0(c) == IF C0_IS_NONE \in c.flags THEN None ELSE c.components[1]
c1(c) == IF C1_IS_NONE \in c.flags THEN None ELSE c.components[2]
c2(c) == IF C2_IS_NONE \in c.flags THEN None ELSE c.components[3]
alpha(c) == IF ALPHA_IS_NONE \in c.flags THEN None ELSE c.alpha

(***************************************************************************)
(* Numeric helpers of src/src/math.rs and the per-space models of          *)
(* src/src/models.  A model is the triple of its three Components.         *)
(***************************************************************************)

\* Component::EPSILON (about 1.2e-7) at the resolution of the model.
Component_EPSILON == 1

\* Half the distance between two neighbouring f32 values below 360, which is
\* 2^-15, at the resolution of the model.
F32_HALF_ULP_AT_360 == 15

\* f32::rem_euclid for m = 360: r = v % m is exact; a negative r is returned
\* as r + m rounded to the nearest f32, which is m itself when r is less than
\* half a step below zero.
rem_euclid(v, m) ==
    IF is_nan(v) THEN NaN
    ELSE IF v < 0 /\ v % m # 0 /\ (v % m) + F32_HALF_ULP_AT_360 >= m THEN m
    ELSE v % m

\* math::normalize, math::normalize_hue and math::almost_zero.
normalize(v) == IF is_nan(v) THEN 0 ELSE v
normalize_hue(hue) == rem_euclid(normalize(hue), 360 * Scale)
almost_zero(v) == lt(abs(v), Component_EPSILON)

\* Components::map.
map(f(_), c) == <<f(c[1]), f(c[2]), f(c[3])>>

\* math::transform: the product of a 3x3 matrix, given in the order of the
\* arguments of transform_3x3, with three components; every product with a
\* NaN is a NaN, and so is every sum with one.
transform(m, c) ==
    IF is_nan(c[1]) \/ is_nan(c[2]) \/ is_nan(c[3]) THEN <<NaN, NaN, NaN>>
    ELSE << Mul(c[1], m[1]) + Mul(c[2], m[4]) + Mul(c[3], m[7]),
            Mul(c[1], m[2]) + Mul(c[2], m[5]) + Mul(c[3], m[8]),
            Mul(c[1], m[3]) + Mul(c[2], m[6]) + Mul(c[3], m[9]) >>

\* The matrices of models/rgb.rs, models/xyz.rs and models/lab.rs.
SRGB_FROM_XYZ ==
    << 3240970, -969244, 55630,
       -1537383, 1875968, -203977,
       -498611, 41555, 1056972 >>

SRGB_TO_XYZ ==
    << 412391, 212639, 19331,
       357584, 715169, 119195,
       180481, 72192, 950532 >>

DISPLAY_P3_TO_XYZ ==
    << 486571, 228975, 0,
       265668, 691739, 45113,
       198217, 79287, 1043944 >>

DISPLAY_P3_FROM_XYZ ==
    << 2493497, -829489, 35846,
       -931384, 1762664, -76172,
       -402711, 23625, 956885 >>

A98_RGB_TO_XYZ ==
    << 576669, 297345, 27031,
       185558, 627364, 70689,
       188229, 75291, 991338 >>

A98_RGB_FROM_XYZ ==
    << 2041588, -969244, 13444,
       -565007, 1875968, -118362,
       -344731, 41555, 1015175 >>

PRO_PHOTO_RGB_TO_XYZ ==
    << 797760, 288071, 0,
       135186, 711843, 0,
       31349, 86, 825105 >>

PRO_PHOTO_RGB_FROM_XYZ ==
    << 1345799, -544622, 0,
       -255580, 1508233, 0,
       -51106, 20536, 1211968 >>

REC2020_TO_XYZ ==
    << 636958, 262700, 0,
       144617, 677998, 28073,
       168881, 59302, 1060985 >>

REC2020_FROM_XYZ ==
    << 1716651, -666684, 17640,
       -355671, 1616481, -42771,
       -253366, 15769, 942103 >>

D50_TO_D65 ==
    << 955473, -28370, 12314,
       -23099, 1009995, -20508,
       63259, 21041, 1330366 >>

D65_TO_D50 ==
    << 1047930, 29628, -9243,
       22947, 990434, 15055,
       -50192, -17074, 751874 >>

XYZ_TO_LMS ==
    << 819022, 32984, 48177,
       361906, 929287, 264240,
       -128874, 36145, 633548 >>

LMS_TO_OKLAB ==
    << 210454, 1977998, 25904,
       793618, -2428592, 782772,
       -4072, 450594, -808676 >>

OKLAB_TO_LMS ==
    << 1000000, 1000000, 1000000,
       396338, -105561, -89484,
       215804, -63854, -1291486 >>

LMS_TO_XYZ ==
    << 1226880, -40576, -76373,
       -557815, 1112287, -421493,
       281391, -71711, 1586924 >>

\* GammaConversion for Srgb (DisplayP3 uses the same curve).
Srgb_to_gamma_encoded(value) ==
    IF gt(abs(value), 3130)
    THEN Mul(signum(value), Sub(MulDiv(powf(abs(value), 5, 12), 1055, 1000), 55000))
    ELSE MulDiv(value, 1292, 100)

Srgb_to_linear_light(value) ==
    IF lt(abs(value), 40450)
    THEN MulDiv(value, 100, 1292)
    ELSE Mul(signum(value), powf(MulDiv(Add(abs(value), 55000), 1000, 1055), 12, 5))

\* GammaConversion for A98Rgb.
A98Rgb_to_gamma_encoded(v) == Mul(signum(v), powf(abs(v), 256, 563))
A98Rgb_to_linear_light(v) == Mul(signum(v), powf(abs(v), 563, 256))

\* GammaConversion for ProPhotoRgb: E is 1/512, respectively 16/512.
ProPhotoRgb_to_gamma_encoded(v) ==
    IF ge(abs(v), 1954) THEN Mul(signum(v), powf(abs(v), 5, 9))
    ELSE MulDiv(v, 16, 1)

ProPhotoRgb_to_linear_light(v) ==
    IF le(abs(v), 31250) THEN MulDiv(v, 1, 16)
    ELSE Mul(signum(v), powf(abs(v), 9, 5))

\* GammaConversion for Rec2020; BETA and BETA * 4.5 are the largest values
\* below the thresholds of the source.
Rec2020_ALPHA == 1099297
Rec2020_BETA == 18053

Rec2020_to_gamma_encoded(v) ==
    IF gt(abs(v), Rec2020_BETA)
    THEN Mul(signum(v), Sub(Mul(Rec2020_ALPHA, powf(abs(v), 9, 20)), Rec2020_ALPHA - Scale))
    ELSE MulDiv(v, 9, 2)

Rec2020_to_linear_light(v) ==
    IF le(abs(v), 81242)
    THEN MulDiv(v, 2, 9)
    ELSE Mul(signum(v),
             powf(Div(Add(abs(v), Rec2020_ALPHA - Scale), Rec2020_ALPHA), 20, 9))

\* WhitePoint for D50.
D50_WHITE_POINT == <<964296, Scale, 825105>>

\* Rectangular::to_polar: <<lightness, chroma, hue>>.  Chroma and angle
\* are computed together; with a NaN among a and b the chroma is a NaN and
\* normalize_hue turns the NaN angle into 0.
to_polar(m) ==
    IF is_nan(m[2]) \/ is_nan(m[3]) THEN <<m[1], NaN, normalize_hue(NaN)>>
    ELSE Value({<<m[1], p[1], IF almost_zero(p[1]) THEN NaN ELSE normalize_hue(p[2])>> :
                    p \in {hypot_atan2(m[2], m[3])}})

\* Polar::to_rectangular: <<lightness, a, b>>.
to_rectangular(m) ==
    IF is_nan(m[3]) THEN <<m[1], NaN, NaN>>
    ELSE Value({<<m[1], Mul(m[2], cs[1]), Mul(m[2], cs[2])>> : cs \in {cos_sin(m[3])}})

\* The cube v * v * v.
cube(v) == Mul(Mul(v, v), v)

\* ToXyz<D50> for Lab: KAPPA is 24389/27 and EPSILON is 216/24389.  x and
\* z are the cube of f0, respectively f2, when the cube is above EPSILON.
Lab_to_xyz_cubed(f) ==
    Value({IF gt(cubed, 8856) THEN cubed
           ELSE MulDiv(Sub(MulDiv(f, 116, 1), 16 * Scale), 27, 24389) :
               cubed \in {cube(f)}})

Lab_to_xyz(m) ==
    Value({<<Mul(Lab_to_xyz_cubed(Add(f1, MulDiv(m[2], 1, 500))), D50_WHITE_POINT[1]),
             Mul(IF gt(m[1], 8 * Scale) THEN cube(f1) ELSE MulDiv(m[1], 27, 24389),
                 D50_WHITE_POINT[2]),
             Mul(Lab_to_xyz_cubed(Sub(f1, MulDiv(m[3], 1, 200))), D50_WHITE_POINT[3])>> :
               f1 \in {MulDiv(Add(m[1], 16 * Scale), 1, 116)}})

\* The closure of From<XyzD50> for Lab.
Lab_f(v) ==
    IF gt(v, 8856) THEN cbrt(v)
    ELSE MulDiv(Add(MulDiv(v, 24389, 27), 16 * Scale), 1, 116)

\* From<XyzD50> for Lab.
Lab_from(xyz) ==
    Value({<<Sub(MulDiv(f1, 116, 1), 16 * Scale),
             MulDiv(Sub(f0, f1), 500, 1),
             MulDiv(Sub(f1, f2), 200, 1)>> :
               f0 \in {Lab_f(Div(xyz[1], D50_WHITE_POINT[1]))},
               f1 \in {Lab_f(Div(xyz[2], D50_WHITE_POINT[2]))},
               f2 \in {Lab_f(Div(xyz[3], D50_WHITE_POINT[3]))}})

\* From<XyzD65> for Oklab and ToXyz<D65> for Oklab.
Oklab_from(xyz) ==
    Value({transform(LMS_TO_OKLAB, root) : root \in {map(cbrt, lms) :
               lms \in {transform(XYZ_TO_LMS, xyz)}}})

Oklab_to_xyz(m) ==
    Value({transform(LMS_TO_XYZ, lms) : lms \in {map(cube, root) :
               root \in {transform(OKLAB_TO_LMS, m)}}})

(***************************************************************************)
(* The HSL and HWB notations: mod util of src/src/convert.rs.              *)
(***************************************************************************)

\* util::rgb_to_hue_min_max: <<hue, min, max>>.
rgb_to_hue_min_max(from) ==
    Value({Value({<<IF ne(delta, 0)
                    THEN MulDiv(IF eq(hi, from[1])
                                THEN Add(Div(Sub(from[2], from[3]), delta),
                                         IF lt(from[2], from[3]) THEN 6 * Scale ELSE 0)
                                ELSE IF eq(hi, from[2])
                                THEN Add(Div(Sub(from[3], from[1]), delta), 2 * Scale)
                                ELSE Add(Div(Sub(from[1], from[2]), delta), 4 * Scale),
                                60, 1)
                    ELSE NaN,
                    lo, hi>> :
                      delta \in {Sub(hi, lo)}}) :
               hi \in {fmax(fmax(from[1], from[2]), from[3])},
               lo \in {fmin(fmin(from[1], from[2]), from[3])}})

\* util::rgb_to_hsl.
rgb_to_hsl(from) ==
    Value({Value({<<hmm[1],
                    IF ne(Sub(hmm[3], hmm[2]), 0)
                    THEN IF eq(lightness, 0) \/ eq(lightness, Scale) THEN 0
                         ELSE Div(Sub(hmm[3], lightness),
                                  fmin(lightness, Sub(Scale, lightness)))
                    ELSE 0,
                    lightness>> :
                      lightness \in {MulDiv(Add(hmm[2], hmm[3]), 1, 2)}}) :
               hmm \in {rgb_to_hue_min_max(from)}})

\* The macro f! of util::hsl_to_rgb.
hsl_f(n, hue, saturation, lightness) ==
    Value({lightness - Mul(Mul(saturation, fmin(lightness, Scale - lightness)),
                           clamp(fmin(k - 3 * Scale, 9 * Scale - k), -Scale, Scale)) :
               k \in {(n * Scale + MulDiv(hue, 1, 30)) % (12 * Scale)}})

\* util::hsl_to_rgb.
hsl_to_rgb(from) ==
    Value({IF saturation <= 0 THEN <<lightness, lightness, lightness>>
           ELSE <<hsl_f(0, hue, saturation, lightness),
                  hsl_f(8, hue, saturation, lightness),
                  hsl_f(4, hue, saturation, lightness)>> :
               hue \in {IF is_nan(from[1]) THEN 0 ELSE rem_euclid(from[1], 360 * Scale)},
               saturation \in {IF is_nan(from[2]) THEN 0 ELSE from[2]},
               lightness \in {IF is_nan(from[3]) THEN 0 ELSE from[3]}})

\* util::rgb_to_hwb.
rgb_to_hwb(from) ==
    Value({<<hmm[1], hmm[2], Sub(Scale, hmm[3])>> : hmm \in {rgb_to_hue_min_max(from)}})

\* util::hwb_to_rgb.
hwb_to_rgb(from) ==
    IF ge(Add(from[2], from[3]), Scale)
    THEN Value({<<gray, gray, gray>> : gray \in {Div(from[2], Add(from[2], from[3]))}})
    ELSE Value({map(LAMBDA v : Add(Mul(v, Sub(Sub(Scale, from[2]), from[3])), from[2]),
                    rgb) :
                    rgb \in {hsl_to_rgb(<<from[1], Scale, Scale \div 2>>)}})

(***************************************************************************)
(* Color::to_space of src/src/convert.rs.                                  *)
(***************************************************************************)

\* Color::as_model: a missing component is a NaN in the model, and a stored
\* NaN is 0.
model_component(o) == IF o = None THEN NaN ELSE IF is_nan(o) THEN 0 ELSE o
as_model(c) ==
    <<model_component(c0(c)), model_component(c1(c)), model_component(c2(c))>>

\* Model::to_color: a NaN component of the model is a missing component of
\* the color.
color_component(v) == IF is_nan(v) THEN None ELSE v
to_color(space, m, a) ==
    Color_new(space, color_component(m[1]), color_component(m[2]),
              color_component(m[3]), a)

\* Xyz::transfer between the white points.
transfer_to_D65(xyz) == transform(D50_TO_D65, xyz)
transfer_to_D50(xyz) == transform(D65_TO_D50, xyz)

\* The first match of to_space: the model of the color as XyzD50.
to_xyz_d50(space, m) ==
    CASE space = "Srgb" ->
            Value({transfer_to_D50(xyz65) :
                xyz65 \in {transform(SRGB_TO_XYZ, linear) :
                linear \in {map(Srgb_to_linear_light, m)}}})
      [] space = "SrgbLinear" ->
            Value({transfer_to_D50(xyz65) :
                xyz65 \in {transform(SRGB_TO_XYZ, m)}})
      [] space = "Hsl" ->
            Value({transfer_to_D50(xyz65) :
                xyz65 \in {transform(SRGB_TO_XYZ, linear) :
                linear \in {map(Srgb_to_linear_light, rgb) :
                rgb \in {hsl_to_rgb(m)}}}})
      [] space = "Hwb" ->
            Value({transfer_to_D50(xyz65) :
                xyz65 \in {transform(SRGB_TO_XYZ, linear) :
                linear \in {map(Srgb_to_linear_light, rgb) :
                rgb \in {hwb_to_rgb(m)}}}})
      [] space = "Lab" -> Lab_to_xyz(m)
      [] space = "Lch" ->
            Value({Lab_to_xyz(lab) : lab \in {to_rectangular(m)}})
      [] space = "Oklab" ->
            Value({transfer_to_D50(xyz65) : xyz65 \in {Oklab_to_xyz(m)}})
      [] space = "Oklch" ->
            Value({transfer_to_D50(xyz65) : xyz65 \in {Oklab_to_xyz(oklab) :
                oklab \in {to_rectangular(m)}}})
      [] space = "XyzD50" -> m
      [] space = "XyzD65" -> transfer_to_D50(m)
      [] space = "DisplayP3" ->
            Value({transfer_to_D50(xyz65) :
                xyz65 \in {transform(DISPLAY_P3_TO_XYZ, linear) :
                linear \in {map(Srgb_to_linear_light, m)}}})
      [] space = "A98Rgb" ->
            Value({transfer_to_D50(xyz65) :
                xyz65 \in {transform(A98_RGB_TO_XYZ, linear) :
                linear \in {map(A98Rgb_to_linear_light, m)}}})
      [] space = "ProPhotoRgb" ->
            Value({transform(PRO_PHOTO_RGB_TO_XYZ, linear) :
                linear \in {map(ProPhotoRgb_to_linear_light, m)}})
      [] space = "Rec2020" ->
            Value({transfer_to_D50(xyz65) :
                xyz65 \in {transform(REC2020_TO_XYZ, linear) :
                linear \in {map(Rec2020_to_linear_light, m)}}})

\* The second match of to_space: the model of the target space from XyzD50.
from_xyz_d50(space, xyz) ==
    CASE space = "Srgb" ->
            Value({map(Srgb_to_gamma_encoded, linear) :
                linear \in {transform(SRGB_FROM_XYZ, xyz65) :
                xyz65 \in {transfer_to_D65(xyz)}}})
      [] space = "SrgbLinear" ->
            Value({transform(SRGB_FROM_XYZ, xyz65) :
                xyz65 \in {transfer_to_D65(xyz)}})
      [] space = "Hsl" ->
            Value({rgb_to_hsl(rgb) :
                rgb \in {map(Srgb_to_gamma_encoded, linear) :
                linear \in {transform(SRGB_FROM_XYZ, xyz65) :
                xyz65 \in {transfer_to_D65(xyz)}}}})
      [] space = "Hwb" ->
            Value({rgb_to_hwb(rgb) :
                rgb \in {map(Srgb_to_gamma_encoded, linear) :
                linear \in {transform(SRGB_FROM_XYZ, xyz65) :
                xyz65 \in {transfer_to_D65(xyz)}}}})
      [] space = "Lab" -> Lab_from(xyz)
      [] space = "Lch" -> Value({to_polar(lab) : lab \in {Lab_from(xyz)}})
      [] space = "Oklab" ->
            Value({Oklab_from(xyz65) : xyz65 \in {transfer_to_D65(xyz)}})
      [] space = "Oklch" ->
            Value({to_polar(oklab) : oklab \in {Oklab_from(xyz65) :
                xyz65 \in {transfer_to_D65(xyz)}}})
      [] space = "DisplayP3" ->
            Value({map(Srgb_to_gamma_encoded, linear) :
                linear \in {transform(DISPLAY_P3_FROM_XYZ, xyz65) :
                xyz65 \in {transfer_to_D65(xyz)}}})
      [] space = "A98Rgb" ->
            Value({map(A98Rgb_to_gamma_encoded, linear) :
                linear \in {transform(A98_RGB_FROM_XYZ, xyz65) :
                xyz65 \in {transfer_to_D65(xyz)}}})
      [] space = "ProPhotoRgb" ->
            Value({map(ProPhotoRgb_to_gamma_encoded, linear) :
                linear \in {transform(PRO_PHOTO_RGB_FROM_XYZ, xyz)}})
      [] space = "Rec2020" ->
            Value({map(Rec2020_to_gamma_encoded, linear) :
                linear \in {transform(REC2020_FROM_XYZ, xyz65) :
                xyz65 \in {transfer_to_D65(xyz)}}})
      [] space = "XyzD50" -> xyz
      [] space = "XyzD65" -> transfer_to_D65(xyz)

\* The direct conversions of to_space.
is_direct(from, to) ==
    <<from, to>> \in
        { <<"Srgb", "SrgbLinear">>, <<"SrgbLinear", "Srgb">>, <<"Srgb", "Hsl">>,
          <<"Hsl", "Srgb">>, <<"Srgb", "Hwb">>, <<"Hwb", "Srgb">>,
          <<"XyzD50", "XyzD65">>, <<"XyzD65", "XyzD50">>, <<"Hsl", "Hwb">>,
          <<"Hwb", "Hsl">> }

direct(from, to, m) ==
    CASE from = "Srgb" /\ to = "SrgbLinear" -> map(Srgb_to_linear_light, m)
      [] from = "SrgbLinear" /\ to = "Srgb" -> map(Srgb_to_gamma_encoded, m)
      [] from = "Srgb" /\ to = "Hsl" -> rgb_to_hsl(m)
      [] from = "Hsl" /\ to = "Srgb" -> hsl_to_rgb(m)
      [] from = "Srgb" /\ to = "Hwb" -> rgb_to_hwb(m)
      [] from = "Hwb" /\ to = "Srgb" -> hwb_to_rgb(m)
      [] from = "XyzD50" /\ to = "XyzD65" -> transfer_to_D65(m)
      [] from = "XyzD65" /\ to = "XyzD50" -> transfer_to_D50(m)
      [] from = "Hsl" /\ to = "Hwb" ->
            Value({rgb_to_hwb(rgb) : rgb \in {hsl_to_rgb(m)}})
      [] from = "Hwb" /\ to = "Hsl" ->
            Value({rgb_to_hsl(rgb) : rgb \in {hwb_to_rgb(m)}})

\* A variant of to_space without the early return for the space the color
\* is in.
to_space_through_xyz(c, space) ==
    Value({to_color(space, model, alpha(c)) :
               model \in {from_xyz_d50(space, xyz) :
               xyz \in {to_xyz_d50(c.space, as_model(c))}}})

\* Color::to_space.
to_space(c, space) ==
    IF c.space = space THEN c
    ELSE IF is_direct(c.space, space)
    THEN Value({to_color(space, model, alpha(c)) :
                    model \in {direct(c.space, space, as_model(c))}})
    ELSE Value({to_color(space, model, alpha(c)) :
                    model \in {from_xyz_d50(space, xyz) :
                    xyz \in {to_xyz_d50(c.space, as_model(c))}}})

(***************************************************************************)
(* Gamut mapping: src/src/gamut.rs.                                        *)
(***************************************************************************)

\* A variant of in_zero_to_one that leaves out the limits 0 and 1.
in_zero_to_one_open(value) == gt(value, 0) /\ lt(value, Scale)

in_zero_to_one(value) == ge(value, 0) /\ le(value, Scale)

\* sqrt(a*a + b*b + c*c), computed without forming the squares, whose low
\* digits decide the comparisons of the search.
root_sum_of_squares(a, b, c) ==
    IF is_nan(a) \/ is_nan(b) \/ is_nan(c) THEN NaN
    ELSE hypot_atan2(hypot_atan2(a, b)[1], c)[1]

\* delta_eok: the distance of two colors in Oklab.
oklab_distance(r, t) ==
    root_sum_of_squares(Sub(t[1], r[1]), Sub(t[2], r[2]), Sub(t[3], r[3]))

delta_eok(reference, sample) ==
    Value({oklab_distance(r.components, t.components) :
               r \in {to_space(reference, "Oklab")}, t \in {to_space(sample, "Oklab")}})

\* Color::clip.
clip(c) ==
    Color_new(c.space,
              clamp(c.components[1], 0, Scale),
              clamp(c.components[2], 0, Scale),
              clamp(c.components[3], 0, Scale),
              c.alpha)

\* The spaces of the three arms of Color::in_gamut.
RgbSpaces == {"Srgb", "SrgbLinear", "DisplayP3", "A98Rgb", "ProPhotoRgb", "Rec2020"}
NoLimitSpaces == {"Lab", "Lch", "Oklab", "Oklch", "XyzD50", "XyzD65"}

\* Color::in_gamut.
in_limits(c) ==
    /\ in_zero_to_one(c.components[1])
    /\ in_zero_to_one(c.components[2])
    /\ in_zero_to_one(c.components[3])

in_gamut(c) ==
    IF c.space \in RgbSpaces THEN in_limits(c)
    ELSE IF c.space \in {"Hsl", "Hwb"} THEN in_limits(to_space(c, "Srgb"))
    ELSE TRUE

\* The constants of map_into_gamut_limits.
JND == 20000
EPSILON == 100

(***************************************************************************)
(* Interpolation: src/src/interpolate.rs.  A Premultiplied is a record of  *)
(* its three Option<Component> components and its Option<Component> alpha; *)
(* an Interpolation is a record of its four fields.                        *)
(***************************************************************************)


\* Space::hue_index: the index of the hue, from 0, or None.
hue_index(space) ==
    IF space \in {"Hsl", "Hwb"} THEN 0
    ELSE IF space \in {"Lch", "Oklch"} THEN 2
    ELSE None

\* A variant of premultiply_c that scales the hue as well.
premultiply_c_with_hue(c, o, i) ==
    IF o = None THEN None ELSE Mul(o, c.alpha)

\* The macro c! of Color::premultiply, on the component o of index i.
premultiply_c(c, o, i) ==
    IF o = None THEN None
    ELSE IF hue_index(c.space) # i THEN Mul(o, c.alpha)
    ELSE o

\* Color::premultiply.
premultiply(c) ==
    IF ALPHA_IS_NONE \in c.flags
    THEN [components |-> <<c0(c), c1(c), c2(c)>>, alpha |-> None]
    ELSE [components |-> <<premultiply_c(c, c0(c), 0), premultiply_c(c, c1(c), 1),
                           premultiply_c(c, c2(c), 2)>>,
          alpha |-> alpha(c)]

\* The hue methods.
HueInterpolationMethod == {"Shorter", "Longer", "Increasing", "Decreasing"}

\* A variant of the Shorter arm that leaves out the shift of b.
adjust_shorter_one_sided(a, b) ==
    IF b - a > 180 * Scale THEN <<a + 360 * Scale, b>> ELSE <<a, b>>

\* The arms of the match of adjust_hue, on hues already reduced to [0, 360).
adjust_shorter(a, b) ==
    IF b - a > 180 * Scale THEN <<a + 360 * Scale, b>>
    ELSE IF b - a < -180 * Scale THEN <<a, b + 360 * Scale>>
    ELSE <<a, b>>

\* A variant of the Longer arm that leaves equal hues alone.
adjust_longer_strict(a, b) ==
    IF 0 < b - a /\ b - a < 180 * Scale THEN <<a + 360 * Scale, b>>
    ELSE IF -180 * Scale < b - a /\ b - a < 0 THEN <<a, b + 360 * Scale>>
    ELSE <<a, b>>

adjust_longer(a, b) ==
    IF 0 < b - a /\ b - a < 180 * Scale THEN <<a + 360 * Scale, b>>
    ELSE IF -180 * Scale < b - a /\ b - a <= 0 THEN <<a, b + 360 * Scale>>
    ELSE <<a, b>>

\* A variant of the Increasing arm that shifts the other endpoint.
adjust_increasing_left(a, b) == IF b < a THEN <<a + 360 * Scale, b>> ELSE <<a, b>>

adjust_increasing(a, b) == IF b < a THEN <<a, b + 360 * Scale>> ELSE <<a, b>>

adjust_decreasing(a, b) == IF a < b THEN <<a + 360 * Scale, b>> ELSE <<a, b>>

\* HueInterpolationMethod::adjust_hue: the adjusted <<a, b>>, for hues that
\* are not NaN.
adjust_hue(method, a, b) ==
    Value({ CASE method = "Shorter" -> adjust_shorter(h[1], h[2])
              [] method = "Longer" -> adjust_longer(h[1], h[2])
              [] method = "Increasing" -> adjust_increasing(h[1], h[2])
              [] method = "Decreasing" -> adjust_decreasing(h[1], h[2]) :
            h \in {<<rem_euclid(a, 360 * Scale), rem_euclid(b, 360 * Scale)>>} })

\* The macro c! of Premultiplied::into_color, on the component of index i.
into_color_c(p, space, a, i) ==
    IF hue_index(space) = i THEN p.components[i + 1]
    ELSE IF p.components[i + 1] = None THEN None
    ELSE Div(p.components[i + 1], a)

\* A variant of Premultiplied::into_color that never divides by the alpha.
into_color_premultiplied(p, space, a) ==
    Color_new(space, p.components[1], p.components[2], p.components[3], a)

\* Premultiplied::into_color.
into_color(p, space, a) ==
    IF a = None \/ eq(a, 0)
    THEN Color_new(space, p.components[1], p.components[2], p.components[3], a)
    ELSE Color_new(space, into_color_c(p, space, a, 0), into_color_c(p, space, a, 1),
                   into_color_c(p, space, a, 2), a)

\* A variant of replace_alpha_none that leaves a missing alpha missing.
keep_alpha_none(c, o) == c

\* The match of Interpolation::new on the two alphas, for the side c with
\* the other side o: a missing alpha is replaced with the alpha of the other
\* side.
replace_alpha_none(c, o) ==
    IF alpha(c) = None /\ alpha(o) # None
    THEN [c EXCEPT !.flags = @ \ {ALPHA_IS_NONE}, !.alpha = alpha(o)]
    ELSE c

\* Interpolation::new.
Interpolation_new(left, right, space) ==
    Value({ [left |-> premultiply(replace_alpha_none(l, r)),
             right |-> premultiply(replace_alpha_none(r, l)),
             space |-> space,
             hue_interpolation_method |-> "Shorter"] :
            l \in {to_space(left, space)}, r \in {to_space(right, space)} })

\* Interpolation::with_hue_interpolation.
with_hue_interpolation(interp, method) ==
    [interp EXCEPT !.hue_interpolation_method = method]

\* A variant of weighted_sum that normalizes the two weights.
weighted_sum_normalized(left, right, left_weight, right_weight) ==
    Div(Add(Mul(left, left_weight), Mul(right, right_weight)),
        Add(left_weight, right_weight))

\* left * left_weight + right * right_weight.
weighted_sum(left, right, left_weight, right_weight) ==
    Add(Mul(left, left_weight), Mul(right, right_weight))

\* The unreachable!() of with_weights, and the color standing for its panic.
Unreachable == None - 2
Panic == [components |-> <<0, 0, 0>>, alpha |-> 0, flags |-> {}, space |-> "panic"]

\* A variant of with_weights_alpha that weighs the left alpha only.
with_weights_alpha_of_left(interp, left_weight, right_weight) ==
    IF interp.left.alpha = None /\ interp.right.alpha = None THEN None
    ELSE IF interp.left.alpha # None /\ interp.right.alpha # None
    THEN clamp(Mul(interp.left.alpha, left_weight), 0, Scale)
    ELSE Unreachable

\* The alpha of with_weights.
with_weights_alpha(interp, left_weight, right_weight) ==
    IF interp.left.alpha = None /\ interp.right.alpha = None THEN None
    ELSE IF interp.left.alpha # None /\ interp.right.alpha # None
    THEN clamp(weighted_sum(interp.left.alpha, interp.right.alpha,
                            left_weight, right_weight), 0, Scale)
    ELSE Unreachable

\* The interpolated hue of with_weights.
with_weights_hue(method, left, right, left_weight, right_weight) ==
    Value({ rem_euclid(weighted_sum(h[1], h[2], left_weight, right_weight), 360 * Scale) :
            h \in {adjust_hue(method, left, right)} })

\* The component of index i of with_weights.
with_weights_component(interp, i, left_weight, right_weight) ==
    Value({ IF lr[1] = None /\ lr[2] = None THEN None
            ELSE IF lr[1] = None THEN lr[2]
            ELSE IF lr[2] = None THEN lr[1]
            ELSE IF hue_index(interp.space) = i
            THEN with_weights_hue(interp.hue_interpolation_method, lr[1], lr[2],
                                  left_weight, right_weight)
            ELSE weighted_sum(lr[1], lr[2], left_weight, right_weight) :
            lr \in {<<interp.left.components[i + 1], interp.right.components[i + 1]>>} })

\* Interpolation::with_weights.
with_weights(interp, left_weight, right_weight) ==
    Value({ IF a = Unreachable THEN Panic
            ELSE into_color([components |->
                                 <<with_weights_component(interp, 0, left_weight, right_weight),
                                   with_weights_component(interp, 1, left_weight, right_weight),
                                   with_weights_component(interp, 2, left_weight, right_weight)>>,
                             alpha |-> None],
                            interp.space, a) :
            a \in {with_weights_alpha(interp, left_weight, right_weight)} })

\* Interpolation::at.
at(interp, t) == with_weights(interp, Sub(Scale, t), t)

\* The normalized <<left_weight, right_weight, alpha_multiplier>> of
\* with_normalized_weights.
normalized_weights(left_weight, right_weight) ==
    Value({ IF ne(sum, Scale)
            THEN Value({ <<Mul(left_weight, scale), Mul(right_weight, scale),
                           IF lt(sum, Scale) THEN sum ELSE Scale>> :
                         scale \in {Div(Scale, sum)} })
            ELSE <<left_weight, right_weight, Scale>> :
            sum \in {Add(left_weight, right_weight)} })

\* A variant of with_normalized_weights that uses the weights as given.
with_given_weights(interp, left_weight, right_weight) ==
    with_weights(interp, left_weight, right_weight)

\* Interpolation::with_normalized_weights.
with_normalized_weights(interp, left_weight, right_weight) ==
    Value({ Value({ IF r = Panic THEN Panic ELSE [r EXCEPT !.alpha = Mul(@, w[3])] :
                    r \in {with_weights(interp, w[1], w[2])} }) :
            w \in {normalized_weights(left_weight, right_weight)} })

(***************************************************************************)
(* State.                                                                  *)
(***************************************************************************)

VARIABLES
    op,      \* the operation that produced the current state
    args,    \* the arguments Color::new was called with
    color,   \* the color under consideration (self)
    read,    \* what c0(), c1(), c2() and alpha() returned, once called
    target,  \* the space argument of to_space
    result,  \* the color returned by to_space or map_into_gamut_limits
    pc,      \* the position in map_into_gamut_limits
    path,    \* the return statement map_into_gamut_limits left through
    origin_oklch, min, max, min_in_gamut, current, current_in_space,
             \* the locals of map_into_gamut_limits
    iterations,
             \* the number of iterations of the loop of map_into_gamut_limits
    calls,   \* the number of calls of map_into_gamut_limits so far
    first,   \* the color returned by the first call
    other,   \* the second color of an interpolation (color is the first)
    interp,  \* the Interpolation built from color and other
    query,   \* the weights the Interpolation was asked for
    hues     \* a pair of hues, adjusted and interpolated

locals == <<origin_oklch, min, max, min_in_gamut, current, current_in_space>>
mapping == <<pc, path, locals, iterations, calls, first>>
mixing == <<other, interp, query, hues>>
vars == <<op, args, color, read, target, result, mapping, mixing>>

\* A value not yet read, and the state before any color exists.
Unread == None - 1
NoArgs == [space |-> "none", c0 |-> 0, c1 |-> 0, c2 |-> 0, alpha |-> 0]
NoColor == [components |-> <<0, 0, 0>>, alpha |-> 0, flags |-> {}, space |-> "none"]
NoRead == <<Unread, Unread, Unread, Unread>>

\* The state before any interpolation exists.
NoInterp ==
    [left |-> [components |-> <<None, None, None>>, alpha |-> None],
     right |-> [components |-> <<None, None, None>>, alpha |-> None],
     space |-> "none", hue_interpolation_method |-> "none"]
NoQuery == [fn |-> "none", left_weight |-> 0, right_weight |-> 0]
NoHues == [method |-> "none", a |-> 0, b |-> 0, t |-> 0, adjusted |-> <<0, 0>>, hue |-> 0]

\* No interpolation has been built or asked for.
NotMixing ==
    /\ other = NoColor
    /\ interp = NoInterp
    /\ query = NoQuery
    /\ hues = NoHues

\* No call of map_into_gamut_limits is in progress or has been made.
NotMapping ==
    /\ pc = "idle"
    /\ path = "none"
    /\ origin_oklch = NoColor
    /\ min = 0
    /\ max = 0
    /\ min_in_gamut = TRUE
    /\ current = NoColor
    /\ current_in_space = NoColor
    /\ iterations = 0
    /\ calls = 0
    /\ first = NoColor

(***************************************************************************)
(* Construction: Color::new and the accessors.                             *)
(***************************************************************************)

\* Arguments tried for the color channels and for alpha.
ChannelArgs == {None, NaN, 250000}
AlphaArgs == {None, NaN, -500000, 0, 400000, Scale, 5 * Scale}
NewSpaces == {"Srgb", "Hsl", "Oklch", "XyzD50"}

InitNew ==
    /\ op = "init"
    /\ args = NoArgs
    /\ color = NoColor
    /\ read = NoRead
    /\ target = "none"
    /\ result = NoColor
    /\ NotMapping
    /\ NotMixing

\* Color::new of crates/camelion/src/color.rs.
New ==
    /\ op = "init"
    /\ \E s \in NewSpaces, x0 \in ChannelArgs, x1 \in ChannelArgs,
          x2 \in ChannelArgs, a \in AlphaArgs :
          /\ args' = [space |-> s, c0 |-> x0, c1 |-> x1, c2 |-> x2, alpha |-> a]
          /\ color' = Color_new(s, x0, x1, x2, a)
    /\ op' = "new"
    /\ UNCHANGED <<read, target, result, mapping, mixing>>

\* Color::new of src/src/color.rs.
NewSrc ==
    /\ op = "init"
    /\ \E s \in NewSpaces, x0 \in ChannelArgs, x1 \in ChannelArgs,
          x2 \in ChannelArgs, a \in AlphaArgs :
          /\ args' = [space |-> s, c0 |-> x0, c1 |-> x1, c2 |-> x2, alpha |-> a]
          /\ color' = Color_new_src(s, x0, x1, x2, a)
    /\ op' = "new_src"
    /\ UNCHANGED <<read, target, result, mapping, mixing>>

\* A caller reads all four channels through the accessors.
ReadChannels ==
    /\ op \in {"new", "new_src"}
    /\ read = NoRead
    /\ read' = <<c0(color), c1(color), c2(color), alpha(color)>>
    /\ UNCHANGED <<op, args, color, target, result, mapping, mixing>>

NextNew == New \/ NewSrc \/ ReadChannels

SpecNew == InitNew /\ [][NextNew]_vars

Constructed == op \in {"new", "new_src"}

\* C6: every Color returned by Color::new with a present alpha argument a
\* stores alpha = min(max(a, 0), 1) (5.0 is stored as 1.0).  A NaN argument
\* has no minimum or maximum and is left out.
C6_AlphaClamped ==
    (Constructed /\ args.alpha # None /\ args.alpha # NaN)
        => color.alpha = (IF args.alpha < 0 THEN 0
                          ELSE IF args.alpha > Scale THEN Scale
                          ELSE args.alpha)

\* The arguments, stored values, flags and reads of the four channels.
ArgOf == <<args.c0, args.c1, args.c2, args.alpha>>
StoredOf == <<color.components[1], color.components[2], color.components[3], color.alpha>>
FlagOf == <<C0_IS_NONE, C1_IS_NONE, C2_IS_NONE, ALPHA_IS_NONE>>

\* C7: Color::new sets the missing flag of a channel if and only if that
\* argument is None, storing 0.0 for it; a NaN argument is stored as NaN
\* without the flag; and c0(), c1(), c2(), alpha() return None exactly when
\* the flag of their channel is set, whatever value is stored.
C7_FlagsFollowNone ==
    Constructed =>
        \A i \in 1..4 :
            /\ (FlagOf[i] \in color.flags) <=> (ArgOf[i] = None)
            /\ (ArgOf[i] = None) => (StoredOf[i] = 0)
            /\ (ArgOf[i] = NaN) => (StoredOf[i] = NaN)
            /\ (read # NoRead) =>
                   /\ (read[i] = None) <=> (FlagOf[i] \in color.flags)
                   /\ (read[i] # None) => (read[i] = StoredOf[i])

\* A color built from a None and a NaN channel has been read back.
C7_Witness ==
    /\ op = "new_src"
    /\ args.c0 = None /\ args.c1 = NaN /\ args.alpha = None
    /\ read # NoRead
    /\ read[1] = None /\ read[2] = NaN /\ read[4] = None

(***************************************************************************)
(* Conversion: Color::to_space.                                            *)
(***************************************************************************)

\* The components of the colors converted, one triple for every space.
ConvertComponents ==
    [ Srgb |-> <<600000, 200000, 200000>>,
      Hsl |-> <<120000000, 500000, 400000>>,
      Hwb |-> <<300000000, 100000, 200000>>,
      Lab |-> <<60000000, 40000000, -30000000>>,
      Lch |-> <<60000000, 45000000, 200000000>>,
      Oklab |-> <<600000, 100000, -100000>>,
      Oklch |-> <<600000, 150000, 200000000>>,
      SrgbLinear |-> <<300000, 50000, 700000>>,
      DisplayP3 |-> <<900000, 400000, 100000>>,
      A98Rgb |-> <<200000, 800000, 300000>>,
      ProPhotoRgb |-> <<500000, 500000, 100000>>,
      Rec2020 |-> <<300000, 10000, 900000>>,
      XyzD50 |-> <<300000, 400000, 200000>>,
      XyzD65 |-> <<250000, 200000, 600000>> ]

\* The alphas of the colors converted.
ConvertAlphas == {None, NaN, 400000, Scale}

\* The colors converted: every space, every combination of missing channels.
ConvertInputs ==
    { Color_new(s,
                IF C0_IS_NONE \in f THEN None ELSE ConvertComponents[s][1],
                IF C1_IS_NONE \in f THEN None ELSE ConvertComponents[s][2],
                IF C2_IS_NONE \in f THEN None ELSE ConvertComponents[s][3],
                a) :
        s \in Space, f \in SUBSET {C0_IS_NONE, C1_IS_NONE, C2_IS_NONE},
        a \in ConvertAlphas }

InitConvert ==
    /\ op = "init"
    /\ args = NoArgs
    /\ color \in ConvertInputs
    /\ read = NoRead
    /\ target = "none"
    /\ result = NoColor
    /\ NotMapping
    /\ NotMixing

\* Color::to_space.
ToSpace ==
    /\ op = "init"
    /\ \E space \in Space :
          /\ target' = space
          /\ result' = to_space(color, space)
    /\ op' = "to_space"
    /\ UNCHANGED <<args, color, read, mapping, mixing>>

NextConvert == ToSpace

SpecConvert == InitConvert /\ [][NextConvert]_vars

Converted == op = "to_space"

\* C8: for every source and target space, to_space keeps the source alpha:
\* the stored alpha of the result is that of the source, and the alpha of
\* the result is missing if and only if that of the source is.
C8_AlphaKept ==
    Converted =>
        /\ result.alpha = color.alpha
        /\ (ALPHA_IS_NONE \in result.flags) <=> (ALPHA_IS_NONE \in color.flags)

\* An HSL color with alpha None has been converted to sRGB with alpha None.
C8_Witness ==
    /\ Converted
    /\ color.space = "Hsl" /\ ALPHA_IS_NONE \in color.flags
    /\ target = "Srgb" /\ result.space = "Srgb"
    /\ ALPHA_IS_NONE \in result.flags

\* C9: to_space to the space the color is in returns a color with the same
\* components, alpha, flags and space, for every space and every combination
\* of missing flags.
C9_SameSpaceIsCopy ==
    (Converted /\ target = color.space) => result = color

\* A color with every channel missing has been converted to its own space.
C9_Witness ==
    /\ Converted
    /\ target = color.space
    /\ color.flags = Flags
    /\ result.flags = Flags

LabFamily == {"Lab", "Lch", "Oklab", "Oklch"}

\* C10: to_space carries missing components forward: a missing hue in HSL
\* or HWB is a missing hue in Lch and Oklch and the other way round, and a
\* missing lightness in Lab, Lch, Oklab or Oklch is a missing lightness in
\* the other spaces of that family and in HSL.
C10_CarryForward ==
    Converted =>
        /\ (color.space \in {"Hsl", "Hwb"} /\ c0(color) = None
                /\ target \in {"Lch", "Oklch"}) => c2(result) = None
        /\ (color.space \in {"Lch", "Oklch"} /\ c2(color) = None
                /\ target \in {"Hsl", "Hwb"}) => c0(result) = None
        /\ (color.space \in LabFamily /\ c0(color) = None
                /\ target \in LabFamily) => c0(result) = None
        /\ (color.space \in LabFamily /\ c0(color) = None
                /\ target = "Hsl") => c2(result) = None

(***************************************************************************)
(* Gamut mapping: Color::map_into_gamut_limits, one action for the code    *)
(* before the loop, one for an iteration of the loop and one for the code  *)
(* after it.                                                               *)
(***************************************************************************)

\* The channels of the colors mapped: for every kind of space, colors that
\* leave map_into_gamut_limits through each of its return statements.
GamutChannels ==
    { <<"Srgb", 300000, 600000, 900000>>,
      <<"Srgb", Scale, 500000, 0>>,
      <<"Srgb", 1100000, 1100000, 1200000>>,
      <<"Srgb", -100000, -200000, -100000>>,
      <<"Srgb", 1005000, 500000, 500000>>,
      <<"Srgb", 1200000, 500000, 500000>>,
      <<"Srgb", 470000, -10000, -200000>>,
      <<"Srgb", 1140000, -460000, 200000>>,
      <<"SrgbLinear", 1200000, 500000, 500000>>,
      <<"DisplayP3", 790000, 520000, -240000>>,
      <<"A98Rgb", 200000, -300000, 500000>>,
      <<"ProPhotoRgb", 1100000, 300000, 200000>>,
      <<"Rec2020", 600000, 1150000, 100000>>,
      <<"Hsl", 100000000, 500000, 400000>>,
      <<"Hsl", 100000000, 500000, 1200000>>,
      <<"Hsl", 100000000, 500000, -100000>>,
      <<"Hsl", 100000000, 1300000, 400000>>,
      <<"Hwb", 0, 200000, 300000>>,
      <<"Hwb", 0, 1300000, -100000>>,
      <<"Hwb", 0, -100000, 1300000>>,
      <<"Hwb", 100000000, 500000, -100000>>,
      <<"Lab", 120000000, 90000000, -130000000>>,
      <<"Lch", 50000000, 200000000, 40000000>>,
      <<"Oklab", 1200000, 300000, -500000>>,
      <<"Oklch", 700000, 500000, 30000000>>,
      <<"XyzD50", 1300000, -200000, 400000>>,
      <<"XyzD65", -100000, 500000, 1500000>> }

\* The alphas of the colors mapped.
GamutAlphas == {None, 400000, Scale}

\* The colors mapped.
GamutInputs ==
    { Color_new(t[1], t[2], t[3], t[4], a) : t \in GamutChannels, a \in GamutAlphas }

\* The number of calls of map_into_gamut_limits made on a color.
MaxCalls == 2

InitGamut ==
    /\ op = "init"
    /\ args = NoArgs
    /\ color \in GamutInputs
    /\ read = NoRead
    /\ target = "none"
    /\ result = NoColor
    /\ pc = "start"
    /\ path = "none"
    /\ origin_oklch = NoColor
    /\ min = 0
    /\ max = 0
    /\ min_in_gamut = TRUE
    /\ current = NoColor
    /\ current_in_space = NoColor
    /\ iterations = 0
    /\ calls = 1
    /\ first = NoColor
    /\ NotMixing

\* map_into_gamut_limits leaves through the return statement named p.
Return(c, p) ==
    /\ result' = c
    /\ path' = p
    /\ pc' = "done"
    /\ first' = IF calls = 1 THEN c ELSE first
    /\ op' = "map_into_gamut_limits"

\* Lines 26 to 101: the returns before the loop, or the entry of the loop.
MapEnter ==
    /\ pc = "start"
    /\ \E oklch \in {to_space(color, "Oklch")}, clipped \in {clip(color)} :
           IF color.space \in NoLimitSpaces
           THEN Return(color, "no_limits") /\ UNCHANGED locals
           ELSE IF in_gamut(color)
           THEN Return(color, "in_gamut") /\ UNCHANGED locals
           ELSE IF ge(oklch.components[1], Scale)
           THEN /\ Return(Color_new(color.space, Scale, Scale, Scale, color.alpha), "white")
                /\ origin_oklch' = oklch
                /\ UNCHANGED <<min, max, min_in_gamut, current, current_in_space>>
           ELSE IF le(oklch.components[1], 0)
           THEN /\ Return(Color_new(color.space, 0, 0, 0, color.alpha), "black")
                /\ origin_oklch' = oklch
                /\ UNCHANGED <<min, max, min_in_gamut, current, current_in_space>>
           ELSE /\ origin_oklch' = oklch
                /\ min' = 0
                /\ max' = oklch.components[2]
                /\ min_in_gamut' = TRUE
                /\ current' = oklch
                /\ current_in_space' = color
                /\ IF lt(delta_eok(oklch, clipped), JND)
                   THEN Return(clipped, "fast_clip")
                   ELSE /\ pc' = "loop"
                        /\ UNCHANGED <<op, result, path, first>>
    /\ UNCHANGED <<args, color, read, target, iterations, calls, mixing>>

\* A variant of midpoint that stays on the lower end.
midpoint_at_min(lo, hi) == lo

\* A variant of midpoint that lies beyond the upper end.
midpoint_beyond_max(lo, hi) == hi + EPSILON

\* Line 107: let chroma = (min + max) / 2.0.
midpoint(lo, hi) == (lo + hi) \div 2

\* Lines 105 to 151: one iteration of the loop.
MapStep ==
    /\ pc = "loop"
    /\ max - min > EPSILON
    /\ iterations' = iterations + 1
    /\ \E chroma \in {midpoint(min, max)} :
       \E cur \in {[current EXCEPT !.components[2] = chroma]} :
       \E in_space \in {to_space(cur, color.space)} :
       \E clipped \in {clip(in_space)} :
       \E e \in {delta_eok(clipped, cur)} :
           /\ current' = cur
           /\ current_in_space' = in_space
           /\ IF min_in_gamut /\ in_gamut(in_space)
              THEN /\ min' = chroma
                   /\ UNCHANGED <<max, min_in_gamut, pc, op, result, path, first>>
              ELSE IF lt(e, JND)
              THEN IF lt(Sub(JND, e), EPSILON)
                   THEN /\ Return(clipped, "converged")
                        /\ UNCHANGED <<min, max, min_in_gamut>>
                   ELSE /\ min_in_gamut' = FALSE
                        /\ min' = chroma
                        /\ UNCHANGED <<max, pc, op, result, path, first>>
              ELSE /\ max' = chroma
                   /\ UNCHANGED <<min, min_in_gamut, pc, op, result, path, first>>
    /\ UNCHANGED <<args, color, read, target, origin_oklch, calls, mixing>>

\* Line 154: the loop has ended and the last candidate is returned.
MapExit ==
    /\ pc = "loop"
    /\ ~(max - min > EPSILON)
    /\ Return(current_in_space, "fall_through")
    /\ UNCHANGED <<args, color, read, target, locals, iterations, calls, mixing>>

\* The caller maps the color it got back.
MapAgain ==
    /\ pc = "done"
    /\ calls < MaxCalls
    /\ calls' = calls + 1
    /\ color' = result
    /\ pc' = "start"
    /\ path' = "none"
    /\ result' = NoColor
    /\ origin_oklch' = NoColor
    /\ min' = 0
    /\ max' = 0
    /\ min_in_gamut' = TRUE
    /\ current' = NoColor
    /\ current_in_space' = NoColor
    /\ iterations' = 0
    /\ UNCHANGED <<op, args, read, target, first, mixing>>

NextGamut == MapEnter \/ MapStep \/ MapExit \/ MapAgain

SpecGamut == InitGamut /\ [][NextGamut]_vars

\* A call of map_into_gamut_limits has returned.
Mapped == pc = "done"

\* Every channel of the color lies in [0, 1].
ChannelsInUnitRange(c) ==
    \A i \in 1..3 : c.components[i] >= 0 /\ c.components[i] <= Scale

\* C1: for every color in an RGB-like space, map_into_gamut_limits returns
\* a color whose three channels all lie in [0, 1], on every return path:
\* white, black, fast clip, converged clip and the return of the last
\* candidate after the loop has ended.
C1_ResultInGamut ==
    (Mapped /\ color.space \in RgbSpaces) => ChannelsInUnitRange(result)

\* C2: map_into_gamut_limits is idempotent: mapping the color returned by a
\* first call returns that color again, with the same components, alpha,
\* flags and space.
C2_Idempotent ==
    (Mapped /\ calls = 2) => result = first

\* No mapping is needed for the color: its space has no gamut limits, or
\* its channels (those of its sRGB conversion for HSL and HWB) lie in [0, 1].
NoMappingNeeded(c) ==
    \/ c.space \in NoLimitSpaces
    \/ c.space \in RgbSpaces /\ ChannelsInUnitRange(c)
    \/ c.space \in {"Hsl", "Hwb"} /\ ChannelsInUnitRange(to_space(c, "Srgb"))

\* C3: map_into_gamut_limits is a no-op whenever no mapping is needed: if
\* the space of the color has no gamut limits, or the color is already in
\* gamut, the result has the components, alpha, flags and space of the
\* input.
C3_NoOpWhenNotNeeded ==
    (Mapped /\ NoMappingNeeded(color)) => result = color

\* An sRGB color with channels on the limits 0 and 1 and a missing alpha
\* has been returned unchanged.
C3_Witness ==
    /\ Mapped
    /\ calls = 1
    /\ color.space = "Srgb"
    /\ color.components = <<Scale, 500000, 0>>
    /\ ALPHA_IS_NONE \in color.flags
    /\ path = "in_gamut"
    /\ result = color

\* C4: for an out-of-gamut color in a gamut-limited space, HSL and HWB
\* included, map_into_gamut_limits returns pure white when the Oklch
\* lightness of the color is >= 1 and pure black when it is <= 0: the
\* returned color converts to sRGB (1, 1, 1), respectively (0, 0, 0).
C4_WhiteOrBlack ==
    (Mapped /\ origin_oklch # NoColor) =>
        /\ ge(origin_oklch.components[1], Scale)
               => to_space(result, "Srgb").components = <<Scale, Scale, Scale>>
        /\ le(origin_oklch.components[1], 0)
               => to_space(result, "Srgb").components = <<0, 0, 0>>

\* C5: map_into_gamut_limits preserves alpha on every return path: the
\* alpha value of the result is that of the input, and the alpha of the
\* result is missing if and only if that of the input is.
C5_AlphaPreserved ==
    Mapped =>
        /\ result.alpha = color.alpha
        /\ (ALPHA_IS_NONE \in result.flags) <=> (ALPHA_IS_NONE \in color.flags)

\* ---------------------------------------------------------------------------
\* Interpolation: Color::interpolate, Interpolation::with_hue_interpolation,
\* at, with_weights and with_normalized_weights.
\* ---------------------------------------------------------------------------

\* The colors that are mixed: the colors of the tests of interpolate.rs, colors
\* with missing channels and missing alpha, an alpha of zero, hues outside
\* [0, 360), hues exactly 180 degrees apart, and the stored alphas 5 and 10 of
\* the test alpha_is_clamped_after_conversion.
InterpColors ==
    { Color_new("Hsl", 50 * Scale, 300000, 700000, Scale),
      Color_new("Hsl", (-30) * Scale, 700000, 300000, Scale),
      Color_new("Hsl", 230 * Scale, 500000, 500000, 400000),
      Color_new("Hsl", None, 500000, 500000, Scale),
      Color_new("Hsl", None, None, None, Scale),
      Color_new("Hsl", None, None, None, None),
      Color_new("Srgb", 240000, 120000, 980000, 400000),
      Color_new("Srgb", 620000, 260000, 640000, 600000),
      Color_new("Srgb", None, 200000, 300000, Scale),
      Color_new("Srgb", 100000, 200000, 300000, None),
      Color_new("Srgb", 500000, 600000, 700000, 0),
      Color_new("Srgb", None, None, None, 400000),
      Color_new_src("Srgb", 2 * Scale, 3 * Scale, 4 * Scale, 5 * Scale),
      Color_new_src("Srgb", 4 * Scale, 6 * Scale, 8 * Scale, 10 * Scale),
      Color_new("Oklch", 600000, 150000, None, 400000),
      Color_new("Oklch", 700000, 100000, 400 * Scale, Scale) }

\* The spaces colors are mixed in: one without a hue, one with the hue first
\* and one with the hue last.
InterpSpaces == {"Srgb", "Hsl", "Oklch"}

\* The positions asked of at.
Times == {0, 250000, 500000, 750000, Scale}

\* The weights asked of with_weights: they sum to one, to more and to less,
\* and one of them is negative.
Weights == {<<500000, 500000>>, <<Scale, Scale>>, <<2 * Scale, -Scale>>, <<-Scale, 500000>>}

\* The weights asked of with_normalized_weights: their sum is positive, and
\* is less than, equal to and more than one.
NormalizedWeights ==
    { <<125000, 375000>>, <<200000, 600000>>, <<500000, 0>>,
      <<250000, 750000>>,
      <<Scale, Scale>>, <<1500000, 500000>> }

InitInterp ==
    /\ op = "init"
    /\ args = NoArgs
    /\ color \in InterpColors
    /\ other \in InterpColors
    /\ read = NoRead
    /\ target = "none"
    /\ result = NoColor
    /\ NotMapping
    /\ interp = NoInterp
    /\ query = NoQuery
    /\ hues = NoHues

\* let interp = color.interpolate(&other, space);
Interpolate ==
    /\ op = "init"
    /\ \E space \in InterpSpaces :
        /\ target' = space
        /\ interp' = Interpolation_new(color, other, space)
    /\ op' = "interpolate"
    /\ UNCHANGED <<args, color, read, result, mapping, other, query, hues>>

\* let interp = interp.with_hue_interpolation(method);
WithHueInterpolation ==
    /\ op = "interpolate"
    /\ \E method \in HueInterpolationMethod :
        interp' = with_hue_interpolation(interp, method)
    /\ op' = "with_hue_interpolation"
    /\ UNCHANGED <<args, color, read, target, result, mapping, other, query, hues>>

\* let result = interp.at(t);
At ==
    /\ op \in {"interpolate", "with_hue_interpolation"}
    /\ \E t \in Times :
        /\ query' = [fn |-> "at", left_weight |-> Sub(Scale, t), right_weight |-> t]
        /\ result' = at(interp, t)
    /\ op' = "at"
    /\ UNCHANGED <<args, color, read, target, mapping, other, interp, hues>>

\* let result = interp.with_weights(left_weight, right_weight);
WithWeights ==
    /\ op \in {"interpolate", "with_hue_interpolation"}
    /\ \E w \in Weights :
        /\ query' = [fn |-> "with_weights", left_weight |-> w[1], right_weight |-> w[2]]
        /\ result' = with_weights(interp, w[1], w[2])
    /\ op' = "with_weights"
    /\ UNCHANGED <<args, color, read, target, mapping, other, interp, hues>>

\* let result = interp.with_normalized_weights(left_weight, right_weight);
WithNormalizedWeights ==
    /\ op \in {"interpolate", "with_hue_interpolation"}
    /\ \E w \in NormalizedWeights :
        /\ query' = [fn |-> "with_normalized_weights", left_weight |-> w[1], right_weight |-> w[2]]
        /\ result' = with_normalized_weights(interp, w[1], w[2])
    /\ op' = "with_normalized_weights"
    /\ UNCHANGED <<args, color, read, target, mapping, other, interp, hues>>

NextInterp ==
    \/ Interpolate
    \/ WithHueInterpolation
    \/ At
    \/ WithWeights
    \/ WithNormalizedWeights

SpecInterp == InitInterp /\ [][NextInterp]_vars

\* An Interpolation has answered a query and result holds the answer.
Answered == op \in {"at", "with_weights", "with_normalized_weights"}

\* The tolerance of assert_component_eq, Component::EPSILON * 1e3 (about
\* 1.2e-4), at the resolution of the model.
COMPONENT_TOLERANCE == 119

\* assert_component_eq!(actual, expected)
assert_component_eq(actual, expected) ==
    le(abs(Sub(actual, expected)), COMPONENT_TOLERANCE)

\* Two hues are the same angle: their difference is a multiple of 360 degrees.
same_hue(actual, expected) ==
    \/ assert_component_eq(rem_euclid(Sub(actual, expected), 360 * Scale), 0)
    \/ assert_component_eq(rem_euclid(Sub(actual, expected), 360 * Scale), 360 * Scale)

\* Channel i of two colors of one space, read through c0(), c1(), c2(), is
\* missing in both or present and the same in both.
same_channel(space, i, actual, expected) ==
    IF actual = None \/ expected = None THEN actual = expected
    ELSE IF hue_index(space) = i THEN same_hue(actual, expected)
    ELSE assert_component_eq(actual, expected)

\* The alphas of two colors, read through alpha(), are missing in both or
\* present and the same in both.
same_alpha(actual, expected) ==
    IF actual = None \/ expected = None THEN actual = expected
    ELSE assert_component_eq(actual, expected)

\* Two colors are the same in space, channels, alpha and missing flags.
same_color(actual, expected) ==
    /\ actual.space = expected.space
    /\ same_channel(expected.space, 0, c0(actual), c0(expected))
    /\ same_channel(expected.space, 1, c1(actual), c1(expected))
    /\ same_channel(expected.space, 2, c2(actual), c2(expected))
    /\ same_alpha(alpha(actual), alpha(expected))

\* at was asked for the left end (t = 0) or for the right end (t = 1).
AtLeftEnd == op = "at" /\ query.right_weight = 0
AtRightEnd == op = "at" /\ query.right_weight = Scale

\* Everything missing in the color near is missing in the color far, and the
\* alpha of near is missing or lies in (0, 1].
EndpointKept(near, far) ==
    /\ near.flags \subseteq far.flags
    /\ alpha(near) = None \/ (gt(alpha(near), 0) /\ le(alpha(near), Scale))

\* C11 (as stated): at(0) equals left.to_space(space) and at(1) equals
\* right.to_space(space) in channels, alpha and missing flags, hues compared
\* modulo 360, for all colors and every mixing space.
C11_Boundary ==
    /\ AtLeftEnd => \E l \in {to_space(color, target)} : same_color(result, l)
    /\ AtRightEnd => \E r \in {to_space(other, target)} : same_color(result, r)

\* C11 (amended): at(0) equals left.to_space(space), and at(1) equals
\* right.to_space(space), in channels, alpha and missing flags, hues compared
\* modulo 360, whenever every channel and alpha missing in that converted
\* endpoint is also missing in the other converted endpoint and the alpha of
\* that endpoint is missing or lies in (0, 1].
C11_BoundaryWhenKept ==
    /\ AtLeftEnd =>
        \E l \in {to_space(color, target)}, r \in {to_space(other, target)} :
            EndpointKept(l, r) => same_color(result, l)
    /\ AtRightEnd =>
        \E l \in {to_space(color, target)}, r \in {to_space(other, target)} :
            EndpointKept(r, l) => same_color(result, r)

\* at(0) was asked of a mix, in another space than the left color's, whose
\* left endpoint has an alpha strictly between 0 and 1 and no missing channel.
C11_Witness ==
    /\ AtLeftEnd
    /\ color.space # target
    /\ color.flags = {}
    /\ color.alpha = 400000
    /\ other.flags = {}
    /\ result.flags = {}
    /\ result.alpha = 400000

\* Interpolation::new has run: interp holds the two premultiplied endpoints.
Built == op # "init" /\ interp # NoInterp

\* The endpoint made from the color near, whose alpha is missing, has taken
\* the alpha of the color far and was premultiplied by it.
AlphaReceived(endpoint, near, far) ==
    /\ endpoint.alpha = alpha(far)
    /\ \A i \in {0, 1, 2} :
        endpoint.components[i + 1] =
            IF <<c0(near), c1(near), c2(near)>>[i + 1] = None THEN None
            ELSE IF hue_index(target) = i THEN near.components[i + 1]
            ELSE Mul(near.components[i + 1], alpha(far))

\* C12: after Interpolation::new the alphas of the two stored endpoints are
\* both present or both missing; an endpoint whose alpha was missing while the
\* other's was present holds the other's alpha and is premultiplied by it;
\* and no query reaches the unreachable!() branch of with_weights.
C12_AlphasAgree ==
    /\ Built => ((interp.left.alpha = None) <=> (interp.right.alpha = None))
    /\ Built =>
        \E l \in {to_space(color, target)}, r \in {to_space(other, target)} :
            /\ (alpha(l) = None /\ alpha(r) # None) => AlphaReceived(interp.left, l, r)
            /\ (alpha(r) = None /\ alpha(l) # None) => AlphaReceived(interp.right, r, l)
            /\ (alpha(l) # None) => interp.left.alpha = alpha(l)
            /\ (alpha(r) # None) => interp.right.alpha = alpha(r)
    /\ Answered => result # Panic

\* A query was answered for a mix whose left color has a missing alpha and
\* present channels and whose right color has the alpha 0.4.
C12_Witness ==
    /\ Answered
    /\ color.flags = {ALPHA_IS_NONE}
    /\ alpha(other) = 400000
    /\ interp.left.alpha = 400000
    /\ result # Panic
    /\ alpha(result) # None

\* left_weight * alpha_left + right_weight * alpha_right, of the alphas of
\* the two endpoints of the Interpolation.
MixedAlpha ==
    Add(Mul(query.left_weight, interp.left.alpha),
        Mul(query.right_weight, interp.right.alpha))

\* C13: the alpha of the result of with_weights(l, r) or at(t) is missing if
\* and only if the alphas of both colors are missing; otherwise it is present,
\* equals l * alphaLeft + r * alphaRight clamped to [0, 1], where alphaLeft
\* and alphaRight are the alphas of the endpoints, and so lies in [0, 1] for
\* any weights; the alphas 5 and 10 give Some(1.0) at t = 0.5.
C13_AlphaMixed ==
    (op \in {"at", "with_weights"}) =>
        /\ (alpha(result) = None) <=> (alpha(color) = None /\ alpha(other) = None)
        /\ alpha(result) # None =>
            /\ 0 <= alpha(result) /\ alpha(result) <= Scale
            /\ MixedAlpha <= 0 => alpha(result) = 0
            /\ MixedAlpha >= Scale => alpha(result) = Scale
            /\ (0 < MixedAlpha /\ MixedAlpha < Scale) =>
                assert_component_eq(alpha(result), MixedAlpha)
        /\ (op = "at" /\ query.right_weight = 500000
                /\ interp.left.alpha = 5 * Scale /\ interp.right.alpha = 10 * Scale) =>
            alpha(result) = Scale

\* with_weights(1, 1) was asked of a mix of the alphas 0.4 and 1: the sum 1.4
\* is clamped to 1.
C13_Witness ==
    /\ op = "with_weights"
    /\ query.left_weight = Scale /\ query.right_weight = Scale
    /\ interp.left.alpha = 400000
    /\ interp.right.alpha = Scale
    /\ alpha(result) = Scale

\* The channels of a color as c0(), c1() and c2() read them.
channels(c) == <<c0(c), c1(c), c2(c)>>

\* The linear interpolation of the premultiplied channel i of the two
\* endpoints, divided by the alpha of the result unless that is missing or 0.
MixedChannel(i) ==
    IF alpha(result) = None \/ alpha(result) = 0
    THEN weighted_sum(interp.left.components[i + 1], interp.right.components[i + 1],
                      query.left_weight, query.right_weight)
    ELSE Div(weighted_sum(interp.left.components[i + 1], interp.right.components[i + 1],
                          query.left_weight, query.right_weight), alpha(result))

\* Channel i of the result of at(t) follows from channel i of the converted
\* endpoints l and r as C14 states.
ChannelAsStated(i, l, r) ==
    IF channels(l)[i + 1] = None /\ channels(r)[i + 1] = None
    THEN channels(result)[i + 1] = None
    ELSE IF channels(l)[i + 1] = None
    THEN channels(result)[i + 1] # None
         /\ assert_component_eq(channels(result)[i + 1], channels(r)[i + 1])
    ELSE IF channels(r)[i + 1] = None
    THEN channels(result)[i + 1] # None
         /\ assert_component_eq(channels(result)[i + 1], channels(l)[i + 1])
    ELSE channels(result)[i + 1] # None
         /\ assert_component_eq(channels(result)[i + 1], MixedChannel(i))

\* C14: for each non-hue channel of the result of at(t): missing on both
\* endpoints, it is missing; missing on exactly one endpoint, it is present
\* and equals the other endpoint's un-premultiplied value for every t, also
\* when the alphas of the endpoints differ; present on both, it is the linear
\* interpolation of the premultiplied values divided by the interpolated alpha.
C14_Channels ==
    op = "at" =>
        \E l \in {to_space(color, target)}, r \in {to_space(other, target)} :
            \A i \in {0, 1, 2} \ {hue_index(target)} : ChannelAsStated(i, l, r)

\* All three channels of the color are missing.
AllMissing(c) == {C0_IS_NONE, C1_IS_NONE, C2_IS_NONE} \subseteq c.flags

\* C15: interpolating two colors that each have all three channels missing
\* yields at every t a result with all three channels missing, and with a
\* present alpha whenever at least one of the two colors has a present alpha.
C15_MissingPropagation ==
    (op = "at" /\ AllMissing(color) /\ AllMissing(other)) =>
        /\ AllMissing(result)
        /\ (alpha(color) # None \/ alpha(other) # None) => alpha(result) # None

\* ---------------------------------------------------------------------------
\* Hue interpolation: HueInterpolationMethod::adjust_hue and the hue arm of
\* Interpolation::with_weights, applied to a pair of present hues.
\* ---------------------------------------------------------------------------

\* The hues, in degrees: inside and outside [0, 360), on and next to the
\* borders 0, 180 and 360, and the hues 50 and -30 of the tests.
HueDegrees == {-390, -360, -330, -180, -30, 0, 50, 90, 180, 230, 270, 330, 360, 400, 540, 720}
HueValues ==
    { d * Scale : d \in HueDegrees }
        \cup {-1, 1, 180 * Scale - 1, 180 * Scale + 1, 360 * Scale - 1, 50 * Scale + 1}

InitHue ==
    /\ op = "init"
    /\ args = NoArgs
    /\ color = NoColor
    /\ read = NoRead
    /\ target = "none"
    /\ result = NoColor
    /\ NotMapping
    /\ other = NoColor
    /\ interp = NoInterp
    /\ query = NoQuery
    /\ hues \in [method : {"none"}, a : HueValues, b : HueValues, t : {0},
                 adjusted : {<<0, 0>>}, hue : {0}]

\* let (mut left, mut right) = (left, right);
\* method.adjust_hue(&mut left, &mut right);
\* (left * left_weight + right * right_weight).rem_euclid(360.0)
AdjustHue ==
    /\ op = "init"
    /\ \E method \in HueInterpolationMethod, t \in Times :
        hues' = [hues EXCEPT !.method = method,
                             !.t = t,
                             !.adjusted = adjust_hue(method, hues.a, hues.b),
                             !.hue = with_weights_hue(method, hues.a, hues.b, Sub(Scale, t), t)]
    /\ op' = "adjust_hue"
    /\ UNCHANGED <<args, color, read, target, result, mapping, other, interp, query>>

NextHue == AdjustHue

SpecHue == InitHue /\ [][NextHue]_vars

\* adjust_hue has run with the given method.
Adjusted(method) == op = "adjust_hue" /\ hues.method = method

\* The distance between the adjusted endpoints.
Span == Abs(hues.adjusted[2] - hues.adjusted[1])

\* The adjusted endpoints are the hues reduced into [0, 360), with at most
\* one of them shifted by +360.
ReducedAndShiftedOnce ==
    hues.adjusted \in { <<hues.a % (360 * Scale), hues.b % (360 * Scale)>>,
                        <<(hues.a % (360 * Scale)) + 360 * Scale, hues.b % (360 * Scale)>>,
                        <<hues.a % (360 * Scale), (hues.b % (360 * Scale)) + 360 * Scale>> }

\* The adjusted endpoints are the hues as rem_euclid reduces them, with at
\* most one of them shifted by +360.
ShiftedOnce ==
    hues.adjusted \in
        { <<rem_euclid(hues.a, 360 * Scale), rem_euclid(hues.b, 360 * Scale)>>,
          <<rem_euclid(hues.a, 360 * Scale) + 360 * Scale, rem_euclid(hues.b, 360 * Scale)>>,
          <<rem_euclid(hues.a, 360 * Scale), rem_euclid(hues.b, 360 * Scale) + 360 * Scale>> }

\* The interpolated hue is the point at t on the line between the adjusted
\* endpoints, reduced into [0, 360).
OnAdjustedArc ==
    same_hue(hues.hue,
             hues.adjusted[1] + Mul(hues.adjusted[2] - hues.adjusted[1], hues.t))

\* C16: with the Shorter method, for every pair of present hues, adjust_hue
\* reduces both into [0, 360) and shifts at most one endpoint by +360 so that
\* the adjusted endpoints satisfy |b - a| <= 180; the hues 50 and -30 give
\* 50, 30, 10, 350 and 330 at t = 0, 0.25, 0.5, 0.75 and 1.
C16_Shorter ==
    Adjusted("Shorter") =>
        /\ ReducedAndShiftedOnce
        /\ Span <= 180 * Scale
        /\ OnAdjustedArc
        /\ (hues.a = 50 * Scale /\ hues.b = (-30) * Scale) =>
            hues.hue = (50 * Scale - 80 * hues.t) % (360 * Scale)

\* The hues 50 and -30 were mixed at t = 0.75 with the Shorter method and give
\* 350: the right endpoint 330 stays and the left endpoint is shifted to 410.
C16_Witness ==
    /\ Adjusted("Shorter")
    /\ hues.a = 50 * Scale /\ hues.b = (-30) * Scale
    /\ hues.t = 750000
    /\ hues.adjusted = <<410 * Scale, 330 * Scale>>
    /\ hues.hue = 350 * Scale

\* C17 (as stated): with the Longer method, for every pair of present hues,
\* the adjusted endpoints span more than 180 and at most 360 degrees; the
\* hues 50 and -30 give 190 at t = 0.5.
C17_Longer ==
    Adjusted("Longer") =>
        /\ 180 * Scale < Span /\ Span <= 360 * Scale
        /\ (hues.a = 50 * Scale /\ hues.b = (-30) * Scale /\ hues.t = 500000) =>
            hues.hue = 190 * Scale

\* C17 (amended): with the Longer method, for every pair of present hues, the
\* adjusted endpoints span at least 180 and at most 360 degrees, exactly 180
\* only when the hues as rem_euclid reduces them are exactly 180 degrees
\* apart, in which case no endpoint is shifted; the interpolated hue lies on the arc between the
\* adjusted endpoints; the hues 50 and -30 give 190 at t = 0.5.
C17_LongerOrHalf ==
    Adjusted("Longer") =>
        /\ ShiftedOnce
        /\ 180 * Scale <= Span /\ Span <= 360 * Scale
        /\ Span = 180 * Scale <=>
            Abs(rem_euclid(hues.b, 360 * Scale) - rem_euclid(hues.a, 360 * Scale))
                = 180 * Scale
        /\ OnAdjustedArc
        /\ (hues.a = 50 * Scale /\ hues.b = (-30) * Scale /\ hues.t = 500000) =>
            hues.hue = 190 * Scale

\* The hues 50 and -30 were mixed at t = 0.5 with the Longer method and give
\* 190: the right endpoint 330 stays, the left endpoint stays, the arc is 280.
C17_Witness ==
    /\ Adjusted("Longer")
    /\ hues.a = 50 * Scale /\ hues.b = (-30) * Scale
    /\ hues.t = 500000
    /\ hues.adjusted = <<50 * Scale, 330 * Scale>>
    /\ hues.hue = 190 * Scale

\* The un-normalized interpolated hue at t, between the adjusted endpoints.
UnnormalizedHue(t) ==
    weighted_sum(hues.adjusted[1], hues.adjusted[2], Sub(Scale, t), t)

\* C18: with the Increasing method the adjusted endpoints satisfy b >= a and
\* with the Decreasing method a >= b, for every pair of present hues; hence
\* the un-normalized interpolated hue (1 - t) * a + t * b is non-decreasing,
\* respectively non-increasing, in t over [0, 1], up to the rounding of the
\* two products.
C18_Monotonic ==
    /\ Adjusted("Increasing") =>
        /\ ShiftedOnce
        /\ hues.adjusted[2] >= hues.adjusted[1]
        /\ \A t1, t2 \in Times : t1 <= t2 => UnnormalizedHue(t1) <= UnnormalizedHue(t2) + COMPONENT_TOLERANCE
        /\ hues.hue = rem_euclid(UnnormalizedHue(hues.t), 360 * Scale)
    /\ Adjusted("Decreasing") =>
        /\ ShiftedOnce
        /\ hues.adjusted[1] >= hues.adjusted[2]
        /\ \A t1, t2 \in Times : t1 <= t2 => UnnormalizedHue(t1) + COMPONENT_TOLERANCE >= UnnormalizedHue(t2)
        /\ hues.hue = rem_euclid(UnnormalizedHue(hues.t), 360 * Scale)

\* The hues 50 and -30 were mixed at t = 0.5 with the Decreasing method,
\* which shifts the left endpoint to 410 and gives 10; the Increasing method
\* leaves both endpoints and gives 190.
C18_Witness ==
    /\ Adjusted("Decreasing")
    /\ hues.a = 50 * Scale /\ hues.b = (-30) * Scale
    /\ hues.t = 500000
    /\ hues.adjusted = <<410 * Scale, 330 * Scale>>
    /\ hues.hue = 10 * Scale

\* C19: for every interpolation in a space with a hue channel, every hue
\* method and every t in [0, 1], a hue that is present in the result of at(t)
\* lies in [0, 360), also when the hue is present on one endpoint only and is
\* carried through from it.
C19_HueInRange ==
    (op = "at" /\ hue_index(target) # None) =>
        \/ channels(result)[hue_index(target) + 1] = None
        \/ /\ 0 <= channels(result)[hue_index(target) + 1]
           /\ channels(result)[hue_index(target) + 1] < 360 * Scale

\* The sum of the weights given to with_normalized_weights.
WeightSum == Add(query.left_weight, query.right_weight)

\* The result of with_normalized_weights(l, r) against reference, the result
\* of at(r / (l + r)): the same channels and missing flags, and the alpha of
\* reference, multiplied by l + r when that is less than one.
NormalizedAgainst(reference) ==
    /\ result.space = reference.space
    /\ \A i \in {0, 1, 2} :
        same_channel(reference.space, i, channels(result)[i + 1], channels(reference)[i + 1])
    /\ IF lt(WeightSum, Scale)
       THEN same_alpha(alpha(result), IF alpha(reference) = None THEN None
                                      ELSE Mul(alpha(reference), WeightSum))
       ELSE alpha(result) = alpha(reference)

\* C20: with_normalized_weights(l, r) with l + r > 0 rescales both weights by
\* 1 / (l + r) when l + r is not 1, returns the channels of at(r / (l + r)),
\* and returns the alpha of at(r / (l + r)) multiplied by l + r when
\* l + r < 1 and unchanged when l + r >= 1.
C20_NormalizedWeights ==
    (op = "with_normalized_weights" /\ gt(WeightSum, 0)) =>
        /\ \E w \in {normalized_weights(query.left_weight, query.right_weight)} :
            /\ assert_component_eq(w[1], Div(query.left_weight, WeightSum))
            /\ assert_component_eq(w[2], Div(query.right_weight, WeightSum))
            /\ assert_component_eq(Add(w[1], w[2]), Scale)
        /\ \E reference \in {at(interp, Div(query.right_weight, WeightSum))} :
            NormalizedAgainst(reference)

\* with_normalized_weights(0.125, 0.375) was asked of a mix of two colors with
\* the alphas 0.4 and 0.6 and no missing channel: the alpha of at(0.75), 0.55,
\* is halved.
C20_Witness ==
    /\ op = "with_normalized_weights"
    /\ query.left_weight = 125000 /\ query.right_weight = 375000
    /\ interp.left.alpha = 400000
    /\ interp.right.alpha = 600000
    /\ result.flags = {}
    /\ alpha(result) = 275000

\* ---------------------------------------------------------------------------
\* Premultiplication: Color::premultiply followed by Premultiplied::into_color
\* with the alpha of the color.
\* ---------------------------------------------------------------------------

\* The alphas of the colors premultiplied: missing, zero and three others.
PremultiplyAlphas == {None, 0, 250000, 400000, Scale}

\* The colors premultiplied: every space, every combination of missing
\* channels.
PremultiplyInputs ==
    { Color_new(s,
                IF C0_IS_NONE \in f THEN None ELSE ConvertComponents[s][1],
                IF C1_IS_NONE \in f THEN None ELSE ConvertComponents[s][2],
                IF C2_IS_NONE \in f THEN None ELSE ConvertComponents[s][3],
                a) :
        s \in Space, f \in SUBSET {C0_IS_NONE, C1_IS_NONE, C2_IS_NONE},
        a \in PremultiplyAlphas }

InitPremultiply ==
    /\ op = "init"
    /\ args = NoArgs
    /\ color \in PremultiplyInputs
    /\ read = NoRead
    /\ target = "none"
    /\ result = NoColor
    /\ NotMapping
    /\ NotMixing

\* let premultiplied = color.premultiply();
Premultiply ==
    /\ op = "init"
    /\ interp' = [NoInterp EXCEPT !.left = premultiply(color), !.space = color.space]
    /\ op' = "premultiply"
    /\ UNCHANGED <<args, color, read, target, result, mapping, other, query, hues>>

\* let result = premultiplied.into_color(space, color.alpha());
IntoColor ==
    /\ op = "premultiply"
    /\ result' = into_color(interp.left, interp.space, alpha(color))
    /\ op' = "into_color"
    /\ UNCHANGED <<args, color, read, target, mapping, mixing>>

NextPremultiply ==
    \/ Premultiply
    \/ IntoColor

SpecPremultiply == InitPremultiply /\ [][NextPremultiply]_vars

\* C21: premultiplying a color with a present, non-zero alpha and then
\* un-premultiplying with that alpha reproduces the channels and the missing
\* flags of the color; the hue of HSL, HWB, Lch and Oklch is scaled by neither
\* step; and a color with a missing alpha is premultiplied to its own values.
C21_RoundTrip ==
    /\ (op = "into_color" /\ alpha(color) # None /\ alpha(color) # 0) =>
        /\ result.flags = color.flags
        /\ \A i \in {0, 1, 2} :
            same_channel(color.space, i, channels(result)[i + 1], channels(color)[i + 1])
        /\ alpha(result) = alpha(color)
    /\ (op \in {"premultiply", "into_color"} /\ hue_index(color.space) # None) =>
        /\ interp.left.components[hue_index(color.space) + 1]
               = channels(color)[hue_index(color.space) + 1]
        /\ op = "into_color" =>
            channels(result)[hue_index(color.space) + 1]
                = channels(color)[hue_index(color.space) + 1]
    /\ (op \in {"premultiply", "into_color"} /\ alpha(color) = None) =>
        /\ interp.left.components = channels(color)
        /\ interp.left.alpha = None

\* An Lch color with the alpha 0.4 and no missing channel was premultiplied,
\* which scaled its lightness, and un-premultiplied.
C21_Witness ==
    /\ op = "into_color"
    /\ color.space = "Lch"
    /\ color.flags = {}
    /\ alpha(color) = 400000
    /\ interp.left.components[1] = Mul(color.components[1], 400000)
    /\ interp.left.components[1] # color.components[1]
    /\ interp.left.components[3] = color.components[3]
    /\ result.flags = {}

(***************************************************************************)
(* Powerless hues: Srgb::to_hsl, Srgb::to_hwb, Rectangular::to_polar and   *)
(* Color::to_space of colors with and without chroma.                      *)
(***************************************************************************)

PowerlessLevels == {0, 200000, 500000, Scale}
PowerlessLab == {0, 50000000, -10, -30000000}
PowerlessOklab == {0, 100000, -200000}

PowerlessInputs ==
    { Color_new("Srgb", r, g, b, Scale) :
        r \in PowerlessLevels, g \in PowerlessLevels, b \in PowerlessLevels }
    \cup { Color_new("Lab", 50000000, a, b, Scale) :
             a \in PowerlessLab, b \in PowerlessLab }
    \cup { Color_new("Oklab", 500000, a, b, Scale) :
             a \in PowerlessOklab, b \in PowerlessOklab }

InitPowerless ==
    /\ op = "init"
    /\ args = NoArgs
    /\ color \in PowerlessInputs
    /\ read = NoRead
    /\ target = "none"
    /\ result = NoColor
    /\ NotMapping
    /\ NotMixing

\* Srgb::to_hsl.
ToHsl ==
    /\ op = "init"
    /\ color.space = "Srgb"
    /\ read' = rgb_to_hsl(color.components) \o <<Unread>>
    /\ op' = "to_hsl"
    /\ UNCHANGED <<args, color, target, result, mapping, mixing>>

\* Srgb::to_hwb.
ToHwb ==
    /\ op = "init"
    /\ color.space = "Srgb"
    /\ read' = rgb_to_hwb(color.components) \o <<Unread>>
    /\ op' = "to_hwb"
    /\ UNCHANGED <<args, color, target, result, mapping, mixing>>

\* Rectangular::to_polar of a Lab or an Oklab model.
ToPolar ==
    /\ op = "init"
    /\ color.space \in {"Lab", "Oklab"}
    /\ read' = to_polar(color.components) \o <<Unread>>
    /\ op' = "to_polar"
    /\ UNCHANGED <<args, color, target, result, mapping, mixing>>

NextPowerless ==
    \/ ToHsl
    \/ ToHwb
    \/ ToPolar
    \/ ToSpace

SpecPowerless == InitPowerless /\ [][NextPowerless]_vars

\* The hue h is an angle of [0, 360).
IsAngle(h) == ~is_nan(h) /\ h # None /\ 0 <= h /\ h < 360 * Scale

NoChroma ==
    IF color.space = "Srgb"
    THEN color.components[1] = color.components[2]
         /\ color.components[2] = color.components[3]
    ELSE color.components[2] = 0 /\ color.components[3] = 0

\* C22: a hue that is undefined for lack of chroma is reported as missing:
\* to_hsl and to_hwb of an sRGB color with red = green = blue yield a NaN
\* hue, to_space of it to HSL or HWB yields a color whose c0() is None,
\* to_polar of a Lab or Oklab color with no chroma yields a NaN hue; and
\* whenever there is chroma the hue is present and lies in [0, 360).
C22_Powerless ==
    /\ op \in {"to_hsl", "to_hwb"} =>
          IF NoChroma THEN is_nan(read[1]) ELSE IsAngle(read[1])
    /\ op = "to_polar" =>
          IF NoChroma THEN is_nan(read[3]) ELSE IsAngle(read[3])
    /\ op = "to_space" /\ color.space = "Srgb" /\ target \in {"Hsl", "Hwb"} =>
          IF NoChroma THEN c0(result) = None ELSE IsAngle(c0(result))

\* The part of C22 about colors without chroma, and the hue of the others
\* up to 360 included.
C22_PowerlessOnly ==
    /\ op \in {"to_hsl", "to_hwb"} =>
          IF NoChroma THEN is_nan(read[1])
          ELSE IsAngle(read[1]) \/ read[1] = 360 * Scale
    /\ op = "to_polar" =>
          IF NoChroma THEN is_nan(read[3])
          ELSE IsAngle(read[3]) \/ read[3] = 360 * Scale
    /\ op = "to_space" /\ color.space = "Srgb" /\ target \in {"Hsl", "Hwb"} =>
          IF NoChroma THEN c0(result) = None
          ELSE IsAngle(c0(result)) \/ c0(result) = 360 * Scale

(***************************************************************************)
(* Round trips: Color::to_space there and back, and the conversions of     *)
(* sRGB to HSL and HWB and back.                                           *)
(***************************************************************************)

\* A second color with chroma of every space, beside ConvertComponents.
RoundTripComponents ==
    [ Srgb |-> <<0, 1000000, 250000>>,
      Hsl |-> <<350000000, 1000000, 700000>>,
      Hwb |-> <<40000000, 0, 600000>>,
      Lab |-> <<30000000, -20000000, 25000000>>,
      Lch |-> <<80000000, 20000000, 90000000>>,
      Oklab |-> <<400000, -50000, 80000>>,
      Oklch |-> <<800000, 50000, 30000000>>,
      SrgbLinear |-> <<1000000, 0, 500000>>,
      DisplayP3 |-> <<0, 1000000, 0>>,
      A98Rgb |-> <<1000000, 1000000, 0>>,
      ProPhotoRgb |-> <<0, 900000, 1000000>>,
      Rec2020 |-> <<0, 1000000, 1000000>>,
      XyzD50 |-> <<500000, 400000, 100000>>,
      XyzD65 |-> <<100000, 200000, 150000>> ]

RoundTripLevels == {0, 1000, 333333, 500000, Scale}

RoundTripInputs ==
    { Color_new(s, m[s][1], m[s][2], m[s][3], a) :
        s \in Space, m \in {ConvertComponents, RoundTripComponents},
        a \in {400000, Scale} }
    \cup { Color_new("Srgb", r, g, b, Scale) :
             r \in RoundTripLevels, g \in RoundTripLevels, b \in RoundTripLevels }

InitRoundTrip ==
    /\ op = "init"
    /\ args = NoArgs
    /\ color \in RoundTripInputs
    /\ read = NoRead
    /\ target = "none"
    /\ result = NoColor
    /\ NotMapping
    /\ NotMixing

\* Color::to_space of the converted color, back to the space of the color.
ToSpaceBack ==
    /\ op = "to_space"
    /\ other' = to_space(result, color.space)
    /\ op' = "to_space_back"
    /\ UNCHANGED <<args, color, read, target, result, mapping, interp, query, hues>>

\* Hsl::to_srgb of the model that Srgb::to_hsl returned.
HslToSrgb ==
    /\ op = "to_hsl"
    /\ read' = hsl_to_rgb(SubSeq(read, 1, 3)) \o <<Unread>>
    /\ op' = "hsl_to_srgb"
    /\ UNCHANGED <<args, color, target, result, mapping, mixing>>

\* Hwb::to_srgb of the model that Srgb::to_hwb returned.
HwbToSrgb ==
    /\ op = "to_hwb"
    /\ read' = hwb_to_rgb(SubSeq(read, 1, 3)) \o <<Unread>>
    /\ op' = "hwb_to_srgb"
    /\ UNCHANGED <<args, color, target, result, mapping, mixing>>

NextRoundTrip ==
    \/ ToSpace
    \/ ToSpaceBack
    \/ (color.space = "Srgb" /\ ToHsl)
    \/ HslToSrgb
    \/ (color.space = "Srgb" /\ ToHwb)
    \/ HwbToSrgb

SpecRoundTrip == InitRoundTrip /\ [][NextRoundTrip]_vars

\* The rounding that a round trip of channel i of a color of a space may
\* leave at the resolution of the model: more on the channels that span
\* hundreds of units, less on those that span one.
round_trip_tolerance(space, i) ==
    IF hue_index(space) = i \/ space \in {"Lab", "Lch"}
    THEN 100 * COMPONENT_TOLERANCE
    ELSE 3 * COMPONENT_TOLERANCE

\* Channel i of a color after a round trip is the channel before it: both
\* missing, or the same value, or the same angle for a hue.
same_after_round_trip(space, i, actual, expected) ==
    IF actual = None \/ expected = None THEN actual = expected
    ELSE \E turn \in (IF hue_index(space) = i THEN {-1, 0, 1} ELSE {0}) :
            le(abs(Sub(actual, expected + turn * 360 * Scale)),
               round_trip_tolerance(space, i))

\* C23: converting a color with chroma to any space and back gives the
\* color again, within tolerance; and hsl_to_rgb(rgb_to_hsl(c)) and
\* hwb_to_rgb(rgb_to_hwb(c)) are c for an sRGB c of [0, 1]^3 whose channels
\* are not all equal.
C23_RoundTrip ==
    /\ op = "to_space_back" /\ ~NoChroma =>
          /\ other.space = color.space
          /\ same_after_round_trip(color.space, 0, c0(other), c0(color))
          /\ same_after_round_trip(color.space, 1, c1(other), c1(color))
          /\ same_after_round_trip(color.space, 2, c2(other), c2(color))
          /\ same_alpha(alpha(other), alpha(color))
    /\ op \in {"hsl_to_srgb", "hwb_to_srgb"} /\ ~NoChroma =>
          \A i \in 1 .. 3 : assert_component_eq(read[i], color.components[i])

\* The round trips of C23 apart from those of an a98-rgb color with a channel
\* of zero.
C23_RoundTripElsewhere ==
    \/ color.space = "A98Rgb" /\ \E i \in 1 .. 3 : color.components[i] = 0
    \/ C23_RoundTrip

(***************************************************************************)
(* The loop of map_into_gamut_limits: termination and invariants.          *)
(***************************************************************************)

\* What MapStep and MapExit do to pc and iterations; one of the two is enabled
\* exactly when control is in the loop.
LoopStep ==
    /\ pc = "loop"
    /\ pc' \in {"loop", "done"}
    /\ iterations' \in {iterations, iterations + 1}

\* The loop of map_into_gamut_limits runs one iteration after the other
\* until it returns: while control is in the loop, MapStep or MapExit is
\* taken.
SpecGamutFair == SpecGamut /\ WF_<<pc, iterations>>(LoopStep)

\* ceil(log2(c0 / EPSILON)), and 0 for a chroma up to EPSILON.
IterationBound(chroma) ==
    CHOOSE n \in 0 .. 20 :
        /\ chroma <= EPSILON * 2^n
        /\ n > 0 => chroma > EPSILON * 2^(n - 1)

\* An iteration that does not return moves min up or max down to the middle
\* of the two, which halves max - min.
Halves ==
    MapStep /\ pc' = "loop" =>
        /\ \/ min' = (min + max) \div 2 /\ max' = max
           \/ max' = (min + max) \div 2 /\ min' = min
        /\ 2 * (max' - min') <= (max - min) + 1

\* C24: the binary search of map_into_gamut_limits terminates: an iteration
\* that does not return raises min or lowers max to the midpoint, max - min
\* halves, the loop is left after at most ceil(log2(c0 / epsilon))
\* iterations for the Oklch chroma c0 of the color, and the call returns.
C24_Terminates ==
    /\ [](iterations <= IterationBound(origin_oklch.components[2]))
    /\ [][Halves]_vars
    /\ (pc = "loop" ~> pc = "done")

\* The loop has run as many iterations as the bound allows, more than ten,
\* and the call has returned.
C24_Witness ==
    /\ pc = "done"
    /\ path = "fall_through"
    /\ iterations > 10
    /\ iterations = IterationBound(origin_oklch.components[2])

\* What an iteration of the loop keeps: min does not decrease, max does not
\* increase, the candidate is the middle of the two, min_in_gamut does not
\* become true again, and min is raised with min_in_gamut left true only if
\* min_in_gamut was true and the candidate is in gamut.
SearchStep ==
    MapStep =>
        /\ min' >= min
        /\ max' <= max
        /\ current'.components[2] = (min + max) \div 2
        /\ min_in_gamut' => min_in_gamut
        /\ min' # min /\ min_in_gamut' => min_in_gamut /\ in_gamut(current_in_space')

\* The loop is entered with min_in_gamut true.
SearchEntry == MapEnter /\ pc' = "loop" => min_in_gamut' /\ min' = 0

\* C25: in every state of the search of map_into_gamut_limits
\* 0 <= min <= max <= the Oklch chroma of the color; min never decreases, max
\* never increases, the candidate chroma is (min + max) / 2, min_in_gamut
\* starts true and never becomes true again once false, and min is raised
\* without clipping only while min_in_gamut is true and the candidate is in
\* gamut.
C25_SearchInvariants ==
    /\ [](pc = "loop" =>
             /\ 0 <= min
             /\ min <= max
             /\ max <= origin_oklch.components[2])
    /\ [][SearchStep]_vars
    /\ [][SearchEntry]_vars

\* The search has raised min, lowered max and found a candidate whose clip
\* is close enough, and goes on.
C25_Witness ==
    /\ pc = "loop"
    /\ 0 < min
    /\ max < origin_oklch.components[2]
    /\ ~min_in_gamut
    /\ iterations > 3

(***************************************************************************)
(* The pairs of spaces that are one step apart.                            *)
(***************************************************************************)

\* The pairs of spaces one step apart that are not handled before the
\* conversion to XYZ D50.
PolarPairs ==
    { <<"Lab", "Lch">>, <<"Lch", "Lab">>, <<"Oklab", "Oklch">>, <<"Oklch", "Oklab">> }

\* The one step between the spaces of a pair, on a model.
one_step(from, to, m) ==
    IF to \in {"Lch", "Oklch"} /\ <<from, to>> \in PolarPairs THEN to_polar(m)
    ELSE IF <<from, to>> \in PolarPairs THEN to_rectangular(m)
    ELSE direct(from, to, m)

\* C26: for the pairs sRGB and sRGB-linear, sRGB and HSL, sRGB and HWB, HSL
\* and HWB, XYZ-D50 and XYZ-D65, Lab and Lch, Oklab and Oklch, in both
\* directions, to_space returns what the one step between the two spaces
\* gives, with no conversion to XYZ in between; Lab and Lch, Oklab and Oklch
\* are converted by the rectangular and polar transforms alone.
C26_Shortcuts ==
    Converted /\ (is_direct(color.space, target) \/ <<color.space, target>> \in PolarPairs) =>
        result = to_color(target, one_step(color.space, target, as_model(color)),
                          alpha(color))

\* The part of C26 about the pairs other than Lab and Lch, Oklab and Oklch.
C26_ShortcutsInTable ==
    Converted /\ is_direct(color.space, target) =>
        result = to_color(target, one_step(color.space, target, as_model(color)),
                          alpha(color))

(***************************************************************************)
(* Analogous missing components: src/src/interpolate.rs.                   *)
(***************************************************************************)

\* Space::_is_rgb_like.
_is_rgb_like(space) ==
    space \in {"Srgb", "SrgbLinear", "DisplayP3", "A98Rgb", "ProPhotoRgb", "Rec2020"}

\* Space::_is_xyz_like.
_is_xyz_like(space) == space \in {"XyzD50", "XyzD65"}

\* _analogous_missing_components: the early returns, then the flags set
\* step by step on an empty set of flags, for the lightness, the
\* colorfulness, the hue and the opponents a and b.
_analogous_missing_components(from, to, flags) ==
    LET set(r, flag, value) == IF value THEN r \cup {flag} ELSE r \ {flag}
        LabLike == {"Lab", "Lch", "Oklab", "Oklch"}
        lightness ==
            IF from \in LabLike
            THEN IF to \in LabLike THEN set({}, C0_IS_NONE, C0_IS_NONE \in flags)
                 ELSE IF to = "Hsl" THEN set({}, C2_IS_NONE, C0_IS_NONE \in flags)
                 ELSE {}
            ELSE IF from = "Hsl" /\ to \in LabLike
            THEN set({}, C0_IS_NONE, C2_IS_NONE \in flags)
            ELSE {}
        colorfulness ==
            IF from \in {"Hsl", "Lch", "Oklch"} /\ to \in {"Hsl", "Lch", "Oklch"}
            THEN set(lightness, C1_IS_NONE, C1_IS_NONE \in flags)
            ELSE lightness
        hue ==
            IF from \in {"Hsl", "Hwb"}
            THEN IF to \in {"Hsl", "Hwb"}
                 THEN set(colorfulness, C0_IS_NONE, C0_IS_NONE \in flags)
                 ELSE IF to \in {"Lch", "Oklch"}
                 THEN set(colorfulness, C2_IS_NONE, C0_IS_NONE \in flags)
                 ELSE colorfulness
            ELSE IF from \in {"Lch", "Oklch"}
            THEN IF to \in {"Hsl", "Hwb"}
                 THEN set(colorfulness, C0_IS_NONE, C2_IS_NONE \in flags)
                 ELSE IF to \in {"Lch", "Oklch"}
                 THEN set(colorfulness, C2_IS_NONE, C2_IS_NONE \in flags)
                 ELSE colorfulness
            ELSE colorfulness
        opponents ==
            IF from \in {"Lab", "Oklab"} /\ to \in {"Lab", "Oklab"}
            THEN set(set(hue, C1_IS_NONE, C1_IS_NONE \in flags),
                     C2_IS_NONE, C2_IS_NONE \in flags)
            ELSE hue
    IN  IF from = to THEN flags
        ELSE IF (_is_rgb_like(from) \/ _is_xyz_like(from))
                /\ (_is_rgb_like(from) \/ _is_xyz_like(to))
        THEN flags
        ELSE opponents

\* _analogous_missing_components(color.space, to, color.flags); the flags
\* returned are held in a color of the space to.
AnalogousMissingComponents ==
    /\ op = "init"
    /\ \E to \in Space :
          /\ target' = to
          /\ result' = [NoColor EXCEPT
                            !.space = to,
                            !.flags = _analogous_missing_components(color.space, to,
                                                                    color.flags)]
    /\ op' = "analogous"
    /\ UNCHANGED <<args, color, read, mapping, mixing>>

\* _analogous_missing_components(to, color.space, flags) on the flags
\* returned.
AnalogousBack ==
    /\ op = "analogous"
    /\ other' = [NoColor EXCEPT
                     !.space = color.space,
                     !.flags = _analogous_missing_components(target, color.space,
                                                             result.flags)]
    /\ op' = "analogous_back"
    /\ UNCHANGED <<args, color, read, target, result, mapping, interp, query, hues>>

NextAnalogous ==
    \/ AnalogousMissingComponents
    \/ AnalogousBack

SpecAnalogous == InitConvert /\ [][NextAnalogous]_vars

ComponentFlags == <<C0_IS_NONE, C1_IS_NONE, C2_IS_NONE>>

\* The category of component i (from 1) of a space: red, green and blue of
\* the RGB-like spaces, lightness, colorfulness, hue, and the opponents a
\* and b; "none" for a component that has no analogue in another space.
Category(space, i) ==
    IF _is_rgb_like(space) THEN <<"red", "green", "blue">>[i]
    ELSE IF space \in {"Lab", "Oklab"} THEN <<"lightness", "a", "b">>[i]
    ELSE IF space \in {"Lch", "Oklch"} THEN <<"lightness", "colorfulness", "hue">>[i]
    ELSE IF space = "Hsl" THEN <<"hue", "colorfulness", "lightness">>[i]
    ELSE IF space = "Hwb" THEN <<"hue", "none", "none">>[i]
    ELSE "none"

\* The component flags of a set of flags of the space from whose component
\* has an analogue in the space to, as flags of that analogue.
Carried(from, to, flags) ==
    { ComponentFlags[j] : j \in { k \in 1 .. 3 :
        \E i \in 1 .. 3 : /\ ComponentFlags[i] \in flags
                          /\ Category(from, i) # "none"
                          /\ Category(from, i) = Category(to, k) } }

\* C27: _analogous_missing_components sets a component flag in its result
\* exactly when the input has the flag on the analogous component: red,
\* green, blue among the RGB-like spaces, lightness, colorfulness, hue, a
\* and b among the others; from == to returns the flags unchanged; and
\* mapping the result back returns the flags that were carried.
C27_Analogous ==
    /\ op = "analogous" =>
          IF color.space = target THEN result.flags = color.flags
          ELSE result.flags \ {ALPHA_IS_NONE} = Carried(color.space, target, color.flags)
    /\ op = "analogous_back" /\ color.space # target =>
          other.flags \ {ALPHA_IS_NONE}
              = Carried(target, color.space, Carried(color.space, target, color.flags))

\* The part of C27 about sources that are neither RGB-like nor XYZ.
C27_AnalogousOtherSources ==
    _is_rgb_like(color.space) \/ _is_xyz_like(color.space)
    \/ (_is_rgb_like(target) /\ op = "analogous_back") \/ C27_Analogous

\* C28: from an RGB-like space to a space that is not RGB-like,
\* _analogous_missing_components returns no component flag, whatever the
\* flags of the input.
C28_RgbDropped ==
    op = "analogous" /\ _is_rgb_like(color.space) /\ ~_is_rgb_like(target) =>
        result.flags \cap {C0_IS_NONE, C1_IS_NONE, C2_IS_NONE} = {}

\* C29: for every pair of spaces, ALPHA_IS_NONE is in the flags returned by
\* _analogous_missing_components if and only if it is in the flags given.
C29_AlphaCarried ==
    op = "analogous" =>
        (ALPHA_IS_NONE \in result.flags <=> ALPHA_IS_NONE \in color.flags)

\* The part of C29 about the pairs that return before the flags are rebuilt.
C29_AlphaCarriedEarly ==
    op = "analogous"
    /\ \/ color.space = target
       \/ _is_rgb_like(color.space)
       \/ _is_xyz_like(color.space) /\ _is_xyz_like(target)
    => (ALPHA_IS_NONE \in result.flags <=> ALPHA_IS_NONE \in color.flags)

(***************************************************************************)
(* Interpolation::with_weights on weights that are not normalized.         *)
(***************************************************************************)

\* The colors mixed: two opaque grays, and colors with a partial, a zero and
\* a missing alpha, with and without a hue.
WeightColors ==
    { Color_new("Srgb", 500000, 500000, 500000, Scale),
      Color_new("Srgb", 100000, 100000, 100000, Scale),
      Color_new("Srgb", 240000, 120000, 980000, 400000),
      Color_new("Srgb", 500000, 600000, 700000, 0),
      Color_new("Srgb", 100000, 200000, 300000, None),
      Color_new("Hsl", 50 * Scale, 300000, 700000, Scale),
      Color_new("Oklch", 600000, 150000, 200 * Scale, 400000) }

InitWeights ==
    /\ op = "init"
    /\ args = NoArgs
    /\ color \in WeightColors
    /\ other \in WeightColors
    /\ read = NoRead
    /\ target = "none"
    /\ result = NoColor
    /\ NotMapping
    /\ interp = NoInterp
    /\ query = NoQuery
    /\ hues = NoHues

NextWeights ==
    \/ Interpolate
    \/ At
    \/ WithWeights

SpecWeights == InitWeights /\ [][NextWeights]_vars

\* Channel i of the result is the sum of the two premultiplied channels,
\* each times its weight as given, over the alpha of the result unless that
\* is zero or missing.
WeightsAsGiven(i) ==
    \E sum \in {Add(Mul(query.left_weight, interp.left.components[i + 1]),
                    Mul(query.right_weight, interp.right.components[i + 1]))} :
        result.components[i + 1] =
            IF alpha(result) = None \/ alpha(result) = 0 THEN sum
            ELSE Div(sum, alpha(result))

\* C30: with_weights(l, r) applies the weights as given: a channel that is
\* not the hue and is present on both endpoints is l times the premultiplied
\* left channel plus r times the premultiplied right one, divided by the
\* clamped alpha of the result unless that is zero or missing; opaque
\* endpoints of the mixing space give with_weights(1, 1) the sum of their
\* channels and the alpha 1; and at(t) is with_weights(1 - t, t).
C30_Weights ==
    /\ op \in {"with_weights", "at"} =>
          \A i \in 0 .. 2 :
              /\ hue_index(interp.space) # i
              /\ interp.left.components[i + 1] # None
              /\ interp.right.components[i + 1] # None
              => WeightsAsGiven(i)
    /\ op \in {"with_weights", "at"} /\ color.space = target /\ alpha(color) # None =>
          \A i \in 0 .. 2 :
              hue_index(target) # i =>
                  interp.left.components[i + 1] = Mul(color.components[i + 1], alpha(color))
    /\ /\ op = "with_weights"
       /\ query.left_weight = Scale /\ query.right_weight = Scale
       /\ color.space = "Srgb" /\ other.space = "Srgb" /\ target = "Srgb"
       /\ alpha(color) = Scale /\ alpha(other) = Scale
       => /\ result.components = [i \in 1 .. 3 |-> color.components[i] + other.components[i]]
          /\ alpha(result) = Scale
    /\ op = "at" =>
          result = with_weights(interp, Scale - query.right_weight, query.right_weight)

\* with_weights(1, 1) of the opaque grays 0.5 and 0.1 in sRGB has returned
\* the gray 0.6 with alpha 1.
C30_Witness ==
    /\ op = "with_weights"
    /\ query.left_weight = Scale /\ query.right_weight = Scale
    /\ target = "Srgb"
    /\ color.components = <<500000, 500000, 500000>>
    /\ other.components = <<100000, 100000, 100000>>
    /\ result.components = <<600000, 600000, 600000>>
    /\ alpha(result) = Scale

====
